---- MODULE Spec2Model ----
(***************************************************************************)
(* Ink2MD conversion orchestration: ConversionPipeline.convert_pdf and its *)
(* VLM loop (conversion_pipeline.py), the conversion_history record store  *)
(* (database.py), the in-memory progress tracker and the retry endpoint    *)
(* (app.py), and the provider capability test (ai_services/base.py).       *)
(*                                                                         *)
(* Text is a sequence of one-character strings.  Every call to an external *)
(* collaborator (document library, AI provider, sqlite) either returns or  *)
(* raises; the outcome is chosen nondeterministically at the call.         *)
(***************************************************************************)
EXTENDS Integers, Sequences, FiniteSets, TLC

\* ------------------------------------------------------------------ bounds
MaxPages == 3         \* pages of a document
MaxText == 1          \* length of a text returned by the extractor / formatter

\* ------------------------------------------------------- program constants
global_retry_attempts == 2   \* DEFAULT_CONFIG_STRUCTURE.app_settings

None == <<"None">>           \* Python None / SQL NULL where a text may stand
NoneId == "None"             \* Python None where a provider id may stand
NoRecord == [absent |-> TRUE]   \* no row for the conversion_id
NoEntry == [absent |-> TRUE]    \* conversion_id not in conversion_progress

\* the conversion the model follows (every conversion has its own uuid4 and with it
\* its own row and its own progress entry)
ConvIds == {1}

\* ---------------------------------------------------------------- text
Chars == {"a", " "}
Whitespace == {" ", "\n"}

RECURSIVE TextsUpTo(_)
TextsUpTo(n) ==
    IF n = 0 THEN {<<>>}
    ELSE LET shorter == TextsUpTo(n - 1)
         IN shorter \cup {Append(t, c) : t \in {s \in shorter : Len(s) = n - 1}, c \in Chars}

Texts == TextsUpTo(MaxText)

\* str.lstrip() / str.rstrip() / str.strip()
RECURSIVE lstrip(_)
lstrip(s) == IF s # <<>> /\ Head(s) \in Whitespace THEN lstrip(Tail(s)) ELSE s

RECURSIVE rstrip(_)
rstrip(s) ==
    IF s # <<>> /\ s[Len(s)] \in Whitespace THEN rstrip(SubSeq(s, 1, Len(s) - 1)) ELSE s

strip(s) == rstrip(lstrip(s))

\* Python truthiness of an Optional[str]
Truthy(s) == s # None /\ s # <<>>

\* the separator of "\n\n---\n\n".join(markdown_pages)
PAGE_SEPARATOR == <<"\n", "\n", "-", "-", "-", "\n", "\n">>

RECURSIVE join(_, _)
join(sep, pages) ==
    IF pages = <<>> THEN <<>>
    ELSE IF Len(pages) = 1 THEN pages[1]
    ELSE pages[1] \o sep \o join(sep, Tail(pages))

\* str(e) of the exceptions the collaborators raise; str(MemoryError()) is ''
ErrMsgs == {<<>>, <<"e">>}

\* ------------------------------------------------------------ providers
\* members of the enum AIServiceCapability (an Enum member never equals a str)
HTR == "AIServiceCapability.HTR"
FORMATTING == "AIServiceCapability.FORMATTING"
LAYOUT_ANALYSIS == "AIServiceCapability.LAYOUT_ANALYSIS"
VLM_DIRECT == "AIServiceCapability.VLM_DIRECT"
DOCUMENT_INTELLIGENCE == "AIServiceCapability.DOCUMENT_INTELLIGENCE"

\* AIServiceInterface.get_capabilities, over the config dict of a service
get_capabilities(config) ==
    (IF config.is_htr_capable THEN {HTR} ELSE {})
    \cup (IF config.is_formatting_capable THEN {FORMATTING} ELSE {})
    \cup (IF config.is_layout_capable THEN {LAYOUT_ANALYSIS} ELSE {})
    \cup (IF config.is_vlm_capable THEN {VLM_DIRECT} ELSE {})
    \cup (IF config.is_document_intelligence_capable THEN {DOCUMENT_INTELLIGENCE} ELSE {})

\* AIServiceInterface.supports_capability: `capability in self.get_capabilities()`
supports_capability(config, capability) == capability \in get_capabilities(config)

\* the provider configurations of DEFAULT_CONFIG_STRUCTURE the model registers
DefaultServices ==
    [p \in {"anthropic_claude_haiku", "ollama_mistral"} |->
        IF p = "anthropic_claude_haiku"
        THEN [type |-> "anthropic", required_fields_present |-> TRUE, enabled |-> TRUE,
              is_htr_capable |-> TRUE, is_formatting_capable |-> TRUE,
              is_layout_capable |-> FALSE, is_vlm_capable |-> TRUE,
              is_document_intelligence_capable |-> FALSE]
        ELSE [type |-> "ollama", required_fields_present |-> TRUE, enabled |-> TRUE,
              is_htr_capable |-> FALSE, is_formatting_capable |-> TRUE,
              is_layout_capable |-> FALSE, is_vlm_capable |-> FALSE,
              is_document_intelligence_capable |-> FALSE]]

\* values of active_services.*_provider_id: unset, a registered id, an unknown id
ProviderChoices == {NoneId, "anthropic_claude_haiku", "ollama_mistral", "unregistered"}

\* ------------------------------------------------------------ record store
\* create_conversion_record, had the row been inserted as 'processing'
create_conversion_record_processing(db, id) ==
    [db EXCEPT ![id] = [status |-> "processing", output_filename |-> None,
                        error_message |-> None, retry_count |-> 0]]

\* DatabaseManager.create_conversion_record: INSERT ... status 'queued'
create_conversion_record(db, id) ==
    [db EXCEPT ![id] = [status |-> "queued", output_filename |-> None,
                        error_message |-> None, retry_count |-> 0]]

\* the kwargs update_conversion_status writes; the other keys are ignored
UpdatableFields == {"output_filename", "retry_count"}

\* update_conversion_status, had it dropped its keyword arguments
update_conversion_status_without_kwargs(db, id, status, error_message, kwargs) ==
    IF db[id] = NoRecord THEN db
    ELSE [db EXCEPT ![id] =
            [f \in DOMAIN db[id] |->
                IF f = "status" THEN status
                ELSE IF f = "error_message" /\ error_message # None THEN error_message
                ELSE db[id][f]]]

\* DatabaseManager.update_conversion_status: UPDATE ... WHERE conversion_id = ?
\* (no row: nothing changes; error_message None: the column is left alone)
update_conversion_status(db, id, status, error_message, kwargs) ==
    IF db[id] = NoRecord THEN db
    ELSE [db EXCEPT ![id] =
            [f \in DOMAIN db[id] |->
                IF f = "status" THEN status
                ELSE IF f = "error_message" /\ error_message # None THEN error_message
                ELSE IF f \in DOMAIN kwargs /\ f \in UpdatableFields THEN kwargs[f]
                ELSE db[id][f]]]

\* DatabaseManager.increment_retry_count
increment_retry_count(db, id) ==
    IF db[id] = NoRecord THEN db
    ELSE [db EXCEPT ![id].retry_count = @ + 1]

\* is_retryable, had it looked at the retry count only
is_retryable_any_status(record, max_retries) ==
    record.retry_count < max_retries

\* is_retryable, had it compared with <= (one retry too many)
is_retryable_off_by_one(record, max_retries) ==
    record.status = "failed" /\ record.retry_count <= max_retries

\* ConversionRecord.is_retryable
is_retryable(record, max_retries) ==
    record.status = "failed" /\ record.retry_count < max_retries

NoKwargs == [f \in {} |-> None]

\* -------------------------------------------------------- progress tracker
\* progress_callback, had the keys already in the entry been kept (setdefault)
progress_callback_keeping_old(cp, id, progress, stage, kwargs) ==
    IF cp[id] = NoEntry THEN cp
    ELSE [cp EXCEPT ![id] = cp[id] @@ kwargs @@ [progress |-> progress, stage |-> stage]]

\* app.progress_callback: conversion_progress[id].update({...}) when id is present
progress_callback(cp, id, progress, stage, kwargs) ==
    IF cp[id] = NoEntry THEN cp
    ELSE [cp EXCEPT ![id] = kwargs @@ [progress |-> progress, stage |-> stage] @@ cp[id]]

\* ------------------------------------------------------------------ state
VARIABLES
    services,             \* AIServiceFactory._services: provider id -> config
    config,               \* ConfigManager: the active_services settings
    rec,                  \* table conversion_history: conversion_id -> row
    conversion_progress,  \* app.conversion_progress: conversion_id -> entry
    cur,                  \* conversion_id the worker thread runs (0: nothing enqueued yet)
    pc,                   \* position of the worker in convert_pdf
    total_pages,          \* len(doc)
    markdown_content,     \* local of convert_pdf
    vlm_markdown,         \* value returned by _process_with_vlm
    markdown_pages,       \* local of _process_with_vlm
    page_num,             \* loop variable of _process_with_vlm (pages done)
    exc,                  \* str(e) of the exception being handled, or None
    output_filename,      \* local of convert_pdf
    result,               \* the dict convert_pdf returns, or NoResult
    outcome,              \* "running", "returned", "raised": how convert_pdf ended
    baseline,             \* what pymupdf4llm.to_markdown returned, or None
    formatted,            \* what format_markdown did: NotCalled, Raised, None or the text
    page_results,         \* what the VLM did for each page so far: Raised or the text
    retry_response,       \* the answer to the latest retry request
    retry_flight,         \* per request thread: the retry request it is inside of
    temp_files,           \* conversion ids whose upload temp_<id>.pdf is on disk
    cleanup_timers,       \* conversion_id -> time left to sleep of each cleanup_progress thread
    terminal_age,         \* conversion_id -> time since its entry became terminal (capped)
    factory_config,       \* AIServiceFactory._config: provider id -> stored config copy
    registry_response,    \* what the latest register / unregister call returned
    in_flight,            \* per request thread: the registry call it is inside of
    templates,            \* PromptManager.templates: template name -> content
    prompt_response,      \* what the latest PromptManager call returned
    helper_call,          \* the latest call of a pure helper of the pipeline
    helper_result,        \* what that call returned
    page_images,          \* the /tmp/page_<id>_<n>.png files that exist: their page numbers
    pipeline_templates    \* conversion_pipeline.prompt_manager.templates: name -> content

workerVars == <<cur, pc, total_pages, markdown_content, vlm_markdown, markdown_pages,
                page_num, exc, output_filename, result, outcome, baseline, formatted,
                page_results>>
retryVars == <<retry_response, retry_flight>>
registryVars == <<factory_config, registry_response, in_flight>>
promptVars == <<templates, prompt_response>>
helperVars == <<helper_call, helper_result>>
serverVars == <<temp_files, cleanup_timers, terminal_age, registryVars, promptVars, helperVars, page_images, pipeline_templates>>
vars == <<services, config, rec, conversion_progress, workerVars, retryVars, serverVars>>

\* three of the built-in prompt templates, name -> content; a content is the
\* sequence of its parts, literal text and replacement fields
DEFAULT_PROMPT_TEMPLATES ==
    [name \in {"htr_default", "formatting_clean", "vlm_direct"} |->
        IF name = "formatting_clean" THEN <<"text", "{content}">> ELSE <<"text">>]

\* the request threads of the server (app.run: Flask serves each request on a
\* thread of its own) and a thread that is inside no registry call
Threads == {"t1", "t2"}
Idle == [at |-> "idle"]

NoResponse == [absent |-> TRUE]
NoResult == [absent |-> TRUE]   \* convert_pdf has not built its result dict
Raised == <<"raised">>   \* a collaborator call that raised instead of returning
NotCalled == <<"not called">>   \* the formatting provider was not called

\* the fields of a worker that a new conversion starts from
FreshWorker ==
    /\ total_pages' = 0
    /\ markdown_content' = None
    /\ vlm_markdown' = None
    /\ markdown_pages' = <<>>
    /\ page_num' = 0
    /\ exc' = None
    /\ output_filename' = None
    /\ result' = NoResult
    /\ outcome' = "running"
    /\ baseline' = None
    /\ formatted' = NotCalled
    /\ page_results' = <<>>

Init ==
    /\ services = DefaultServices
    /\ config \in [vlm_provider_id : ProviderChoices,
                   formatting_provider_id : ProviderChoices]
    /\ rec = [id \in ConvIds |-> NoRecord]
    /\ conversion_progress = [id \in ConvIds |-> NoEntry]
    /\ cur = 0
    /\ pc = "idle"
    /\ total_pages = 0
    /\ markdown_content = None
    /\ vlm_markdown = None
    /\ markdown_pages = <<>>
    /\ page_num = 0
    /\ exc = None
    /\ output_filename = None
    /\ result = NoResult
    /\ outcome = "running"
    /\ baseline = None
    /\ formatted = NotCalled
    /\ page_results = <<>>
    /\ retry_response = NoResponse
    /\ retry_flight = [t \in Threads |-> Idle]
    /\ temp_files = {}
    /\ cleanup_timers = [id \in ConvIds |-> {}]
    /\ terminal_age = [id \in ConvIds |-> 0]
    /\ factory_config = DefaultServices
    /\ registry_response = NoResponse
    /\ in_flight = [t \in Threads |-> Idle]
    /\ templates = DEFAULT_PROMPT_TEMPLATES
    /\ prompt_response = NoResponse
    /\ helper_call = NoResponse
    /\ helper_result = None
    /\ page_images = {}
    /\ pipeline_templates = DEFAULT_PROMPT_TEMPLATES

\* ConversionPipeline.update_progress with the app's progress_callback installed
update_progress(progress, stage, kwargs) ==
    conversion_progress' = progress_callback(conversion_progress, cur, progress, stage, kwargs)

\* ------------------------------------------------- enqueue and worker start
\* app.convert: every temp_*.pdf in the directory removed, a fresh uuid, the upload
\* saved as temp_<id>.pdf, the worker thread started
convert ==
    /\ pc = "idle"
    /\ cur' \in ConvIds
    /\ temp_files' = {cur'}
    /\ pc' = "start"
    /\ FreshWorker
    /\ UNCHANGED <<services, config, rec, conversion_progress, retryVars,
                   cleanup_timers, terminal_age, registryVars, promptVars, helperVars, page_images, pipeline_templates>>

\* app.convert_pdf_with_progress: the initial progress entry
convert_pdf_with_progress ==
    /\ pc = "start"
    /\ conversion_progress' = [conversion_progress EXCEPT ![cur] =
            [progress |-> 0, stage |-> "Starting conversion...", total_pages |-> 0,
             current_page |-> 0, status |-> "processing"]]
    /\ pc' = "open"
    /\ UNCHANGED <<services, config, rec, cur, total_pages, markdown_content,
                   vlm_markdown, markdown_pages, page_num, exc, output_filename, result,
                   outcome, baseline, formatted, page_results, retryVars, serverVars>>

\* convert_pdf: pymupdf.open(temp_path); len(doc); os.path.getsize
OpenDocument ==
    /\ pc = "open"
    /\ \/ /\ cur \in temp_files
          /\ \E n \in 1..MaxPages : total_pages' = n /\ exc' = None /\ pc' = "create"
       \/ \E m \in ErrMsgs : exc' = m /\ pc' = "except" /\ UNCHANGED total_pages
    /\ UNCHANGED <<services, config, rec, conversion_progress, cur,
                   markdown_content, vlm_markdown, markdown_pages, page_num,
                   output_filename, result, outcome, baseline, formatted, page_results,
                   retryVars, serverVars>>

\* convert_pdf: create_conversion_record inside try/except (a raising write is logged)
CreateRecord ==
    /\ pc = "create"
    /\ \E ok \in BOOLEAN : rec' = IF ok THEN create_conversion_record(rec, cur) ELSE rec
    /\ pc' = "init"
    /\ UNCHANGED <<services, config, conversion_progress, cur, total_pages,
                   markdown_content, vlm_markdown, markdown_pages, page_num, exc,
                   output_filename, result, outcome, baseline, formatted, page_results,
                   retryVars, serverVars>>

\* convert_pdf: update_progress(5, "Initializing conversion...", total_pages=...)
PublishInitializing ==
    /\ pc = "init"
    /\ update_progress(5, "Initializing conversion...", [total_pages |-> total_pages])
    /\ pc' = "processing"
    /\ UNCHANGED <<services, config, rec, cur, total_pages, markdown_content,
                   vlm_markdown, markdown_pages, page_num, exc, output_filename, result,
                   outcome, baseline, formatted, page_results, retryVars, serverVars>>

\* convert_pdf: update_conversion_status(status='processing') inside try/except
SetProcessing ==
    /\ pc = "processing"
    /\ \E ok \in BOOLEAN :
         rec' = IF ok THEN update_conversion_status(rec, cur, "processing", None, NoKwargs)
                ELSE rec
    /\ pc' = "vlm_guard"
    /\ UNCHANGED <<services, config, conversion_progress, cur, total_pages,
                   markdown_content, vlm_markdown, markdown_pages, page_num, exc,
                   output_filename, result, outcome, baseline, formatted, page_results,
                   retryVars, serverVars>>

\* _process_with_vlm, lines 293-303: the three early returns of None
\* (no provider configured, provider not registered, capability not supported)
VlmGuardPasses ==
    /\ config.vlm_provider_id # NoneId
    /\ config.vlm_provider_id \in DOMAIN services
    /\ supports_capability(services[config.vlm_provider_id], "vlm_direct")

ProcessWithVlmGuard ==
    /\ pc = "vlm_guard"
    /\ vlm_markdown' = None
    /\ pc' = IF VlmGuardPasses THEN "vlm_start" ELSE "vlm_returned"
    /\ UNCHANGED <<services, config, rec, conversion_progress, cur, total_pages,
                   markdown_content, markdown_pages, page_num, exc, output_filename,
                   result, outcome, baseline, formatted, page_results, retryVars, serverVars>>

\* convert_pdf, else branch of `if vlm_markdown:`: update_progress(10, ...)
PublishExtracting ==
    /\ pc = "vlm_returned"
    /\ ~Truthy(vlm_markdown)
    /\ update_progress(10, "Extracting text from PDF...", NoKwargs)
    /\ pc' = "extract"
    /\ UNCHANGED <<services, config, rec, cur, total_pages, markdown_content,
                   vlm_markdown, markdown_pages, page_num, exc, output_filename, result,
                   outcome, baseline, formatted, page_results, retryVars, serverVars>>

\* convert_pdf: pymupdf4llm.to_markdown(temp_path), then update_progress(40, ...)
ExtractMarkdown ==
    /\ pc = "extract"
    /\ \/ \E t \in Texts :
            /\ cur \in temp_files
            /\ markdown_content' = t
            /\ baseline' = t
            /\ update_progress(40, "Basic text extraction complete", NoKwargs)
            /\ pc' = "enhance_check"
            /\ UNCHANGED exc
       \/ \E m \in ErrMsgs :
            /\ exc' = m
            /\ pc' = "except"
            /\ UNCHANGED <<markdown_content, baseline, conversion_progress>>
    /\ UNCHANGED <<services, config, rec, cur, total_pages, vlm_markdown,
                   markdown_pages, page_num, output_filename, result, outcome, formatted,
                   page_results, retryVars, serverVars>>

\* convert_pdf: `if formatting_provider_id:` true, update_progress(50, ...)
PublishEnhancing ==
    /\ pc = "enhance_check"
    /\ config.formatting_provider_id # NoneId
    /\ update_progress(50, "Enhancing with AI...", NoKwargs)
    /\ pc' = "get_service"
    /\ UNCHANGED <<services, config, rec, cur, total_pages, markdown_content,
                   vlm_markdown, markdown_pages, page_num, exc, output_filename, result,
                   outcome, baseline, formatted, page_results, retryVars, serverVars>>

\* convert_pdf: `if formatting_provider_id:` false, update_progress(85, ...)
PublishEnhancementDisabled ==
    /\ pc = "enhance_check"
    /\ config.formatting_provider_id = NoneId
    /\ update_progress(85, "AI enhancement disabled, using original text", NoKwargs)
    /\ pc' = "finalize"
    /\ UNCHANGED <<services, config, rec, cur, total_pages, markdown_content,
                   vlm_markdown, markdown_pages, page_num, exc, output_filename, result,
                   outcome, baseline, formatted, page_results, retryVars, serverVars>>

\* convert_pdf: ai_factory.get_service(id) and ai_service.is_available(); the
\* availability probe of an enabled service answers either way
GetFormattingService ==
    /\ pc = "get_service"
    /\ \E available \in BOOLEAN :
         /\ available =>
              /\ config.formatting_provider_id \in DOMAIN services
              /\ services[config.formatting_provider_id].enabled
         /\ IF available
            THEN /\ update_progress(70, "Refining markdown formatting with AI...", NoKwargs)
                 /\ pc' = "enhance"
            ELSE /\ update_progress(85, "AI service not available, using original text",
                                    NoKwargs)
                 /\ pc' = "finalize"
    /\ UNCHANGED <<services, config, rec, cur, total_pages, markdown_content,
                   vlm_markdown, markdown_pages, page_num, exc, output_filename, result,
                   outcome, baseline, formatted, page_results, retryVars, serverVars>>

\* _enhance_markdown_with_ai, had it returned whatever the provider answered
enhance_markdown_with_ai_unchecked(response) ==
    IF response = Raised THEN None ELSE response

\* _enhance_markdown_with_ai: the value returned for what format_markdown did
\* (an exception is caught and gives None; empty or blank content gives None)
enhance_markdown_with_ai(response) ==
    IF response = Raised THEN None
    ELSE IF Truthy(response) /\ Len(strip(response)) > 0 THEN strip(response)
    ELSE None

\* convert_pdf: enhanced_markdown = _enhance_markdown_with_ai(...), update_progress(85, ...)
EnhanceMarkdown ==
    /\ pc = "enhance"
    /\ \E response \in Texts \cup {None, Raised} :
         LET enhanced_markdown == enhance_markdown_with_ai(response) IN
         /\ formatted' = response
         /\ IF Truthy(enhanced_markdown)
            THEN /\ markdown_content' = enhanced_markdown
                 /\ update_progress(85, "AI enhancement complete", NoKwargs)
            ELSE /\ UNCHANGED markdown_content
                 /\ update_progress(85, "AI enhancement skipped (using original)", NoKwargs)
    /\ pc' = "finalize"
    /\ UNCHANGED <<services, config, rec, cur, total_pages, vlm_markdown,
                   markdown_pages, page_num, exc, output_filename, result, outcome,
                   baseline, page_results, retryVars, serverVars>>

\* convert_pdf: update_progress(90, ...), then output_pattern.replace(...).replace(...)
\* (only that a str results is kept here: the name is never None)
ComputedOutputFilename == <<"o", "u", "t">>

FinalizeOutput ==
    /\ pc = "finalize"
    /\ update_progress(90, "Finalizing output...", NoKwargs)
    /\ output_filename' = ComputedOutputFilename
    /\ pc' = "result"
    /\ UNCHANGED <<services, config, rec, cur, total_pages, markdown_content,
                   vlm_markdown, markdown_pages, page_num, exc, result, outcome, baseline,
                   formatted, page_results, retryVars, serverVars>>

\* convert_pdf: the result dict (the fields the pipeline decides)
\* the result dict, had it marked every conversion as AI-enhanced
ResultDict_always_enhanced ==
    [markdown |-> markdown_content,
     pageCount |-> total_pages,
     success |-> TRUE,
     ai_enhanced |-> TRUE,
     processing_method |-> IF Truthy(vlm_markdown) THEN "vlm" ELSE "traditional",
     vlm_provider |-> IF Truthy(vlm_markdown) THEN config.vlm_provider_id ELSE NoneId,
     formatting_provider |->
        IF ~Truthy(vlm_markdown) /\ config.formatting_provider_id # NoneId
        THEN config.formatting_provider_id ELSE NoneId]

ResultDict ==
    [markdown |-> markdown_content,
     pageCount |-> total_pages,
     success |-> TRUE,
     ai_enhanced |-> (Truthy(vlm_markdown) \/ config.formatting_provider_id # NoneId),
     processing_method |-> IF Truthy(vlm_markdown) THEN "vlm" ELSE "traditional",
     vlm_provider |-> IF Truthy(vlm_markdown) THEN config.vlm_provider_id ELSE NoneId,
     formatting_provider |->
        IF ~Truthy(vlm_markdown) /\ config.formatting_provider_id # NoneId
        THEN config.formatting_provider_id ELSE NoneId]

\* convert_pdf: update_progress(95, "Conversion complete!", status='completed', result=result)
PublishComplete ==
    /\ pc = "result"
    /\ result' = ResultDict
    /\ update_progress(95, "Conversion complete!",
                       [status |-> "completed", result |-> ResultDict])
    /\ pc' = "complete_record"
    /\ UNCHANGED <<services, config, rec, cur, total_pages, markdown_content,
                   vlm_markdown, markdown_pages, page_num, exc, output_filename, outcome,
                   baseline, formatted, page_results, retryVars, serverVars>>

\* the write of 'completed', had it not been wrapped in try/except: a raising write
\* reaches the except clause of convert_pdf
CompleteRecord_unguarded ==
    /\ pc = "complete_record"
    /\ \E ok \in BOOLEAN :
         IF ok
         THEN /\ rec' = update_conversion_status(rec, cur, "completed", None,
                                                 [output_filename |-> output_filename])
              /\ pc' = "pipeline_complete"
              /\ UNCHANGED exc
         ELSE /\ rec' = rec
              /\ pc' = "except"
              /\ exc' \in ErrMsgs
    /\ UNCHANGED <<services, config, conversion_progress, cur, total_pages,
                   markdown_content, vlm_markdown, markdown_pages, page_num,
                   output_filename, result, outcome, baseline, formatted, page_results,
                   retryVars, serverVars>>

\* convert_pdf: update_conversion_status(status='completed', output_filename=...)
\* inside try/except
CompleteRecord ==
    /\ pc = "complete_record"
    /\ \E ok \in BOOLEAN :
         rec' = IF ok
                THEN update_conversion_status(rec, cur, "completed", None,
                                              [output_filename |-> output_filename])
                ELSE rec
    /\ pc' = "pipeline_complete"
    /\ UNCHANGED <<services, config, conversion_progress, cur, total_pages,
                   markdown_content, vlm_markdown, markdown_pages, page_num, exc,
                   output_filename, result, outcome, baseline, formatted, page_results,
                   retryVars, serverVars>>

\* convert_pdf: update_progress(100, "Pipeline complete!"); return result
PublishPipelineComplete ==
    /\ pc = "pipeline_complete"
    /\ update_progress(100, "Pipeline complete!", NoKwargs)
    /\ outcome' = "returned"
    /\ pc' = "done"
    /\ UNCHANGED <<services, config, rec, cur, total_pages, markdown_content,
                   vlm_markdown, markdown_pages, page_num, exc, output_filename, result,
                   baseline, formatted, page_results, retryVars, serverVars>>

\* convert_pdf, except: update_conversion_status(status='failed', error_message=str(e))
\* inside try/except
FailRecord ==
    /\ pc = "except"
    /\ \E ok \in BOOLEAN :
         rec' = IF ok THEN update_conversion_status(rec, cur, "failed", exc, NoKwargs)
                ELSE rec
    /\ pc' = "except_progress"
    /\ UNCHANGED <<services, config, conversion_progress, cur, total_pages,
                   markdown_content, vlm_markdown, markdown_pages, page_num, exc,
                   output_filename, result, outcome, baseline, formatted, page_results,
                   retryVars, serverVars>>

\* convert_pdf, except: progress_callback(id, 0, 'Error: ...', status='error', error=str(e))
PublishError ==
    /\ pc = "except_progress"
    /\ update_progress(0, "Error", [status |-> "error", error |-> exc])
    /\ pc' = "raise"
    /\ UNCHANGED <<services, config, rec, cur, total_pages, markdown_content,
                   vlm_markdown, markdown_pages, page_num, exc, output_filename, result,
                   outcome, baseline, formatted, page_results, retryVars, serverVars>>

\* convert_pdf `raise e`, caught by convert_pdf_with_progress, which replaces the entry
Reraise ==
    /\ pc = "raise"
    /\ conversion_progress' = [conversion_progress EXCEPT ![cur] =
            [progress |-> 0, stage |-> "Error", status |-> "error", error |-> exc]]
    /\ outcome' = "raised"
    /\ pc' = "done"
    /\ UNCHANGED <<services, config, rec, cur, total_pages, markdown_content,
                   vlm_markdown, markdown_pages, page_num, exc, output_filename, result,
                   baseline, formatted, page_results, retryVars, serverVars>>

\* ------------------------------------------------------------ the VLM path
\* _process_with_vlm, line 305: update_progress(20, ...)
PublishVlmStart ==
    /\ pc = "vlm_start"
    /\ update_progress(20, "Processing with Vision-Language Model...", NoKwargs)
    /\ pc' = "vlm_open"
    /\ UNCHANGED <<services, config, rec, cur, total_pages, markdown_content,
                   vlm_markdown, markdown_pages, page_num, exc, output_filename, result,
                   outcome, baseline, formatted, page_results, retryVars, serverVars>>

\* _process_with_vlm: doc = pymupdf.open(temp_path); markdown_pages = []
\* (a raising open is caught by the outer except, which returns None)
VlmOpenDocument ==
    /\ pc = "vlm_open"
    /\ \/ /\ cur \in temp_files
          /\ markdown_pages' = <<>>
          /\ page_num' = 0
          /\ pc' = "vlm_page"
          /\ UNCHANGED vlm_markdown
       \/ /\ vlm_markdown' = None
          /\ pc' = "vlm_returned"
          /\ UNCHANGED <<markdown_pages, page_num>>
    /\ UNCHANGED <<services, config, rec, conversion_progress, cur, total_pages,
                   markdown_content, exc, output_filename, result, outcome, baseline,
                   formatted, page_results, retryVars, serverVars>>

\* what the VLM returns for a page
PageTexts == {<<>>, <<"a">>, <<"b">>, <<" ">>}

\* int(20 + (60 * (page_num + 1) / len(doc)))
PageProgress(done, pages) == 20 + ((60 * done) \div pages)

\* the page list, had a page been put in front of the earlier ones
append_page_in_front(pages, page_markdown) ==
    IF Truthy(page_markdown) THEN <<page_markdown>> \o pages ELSE pages

\* the page list, had every answer been appended, an empty one too
append_page_unchecked(pages, page_markdown) == Append(pages, page_markdown)

\* _process_with_vlm: `if page_markdown: markdown_pages.append(page_markdown)`
append_page(pages, page_markdown) ==
    IF Truthy(page_markdown) THEN Append(pages, page_markdown) ELSE pages

\* _process_with_vlm, lines 320-323: pix.save(temp_img_path) writes the page's image
write_page_image(images, n) == images \cup {n}

\* _process_with_vlm, lines 347-351: os.remove(temp_img_path), reached only when the
\* statements before it in the try block did not raise
remove_page_image(images, n) == images \ {n}

\* _process_with_vlm, one iteration of `for page_num in range(len(doc))`: render the
\* page and save its image, call process_with_vlm, remove the image, append a truthy
\* answer, update_progress; an exception anywhere in the body, before the image is
\* written or after, is logged and the loop continues with the next page, the
\* statements after the raising one skipped
VlmProcessPage ==
    /\ pc = "vlm_page"
    /\ page_num < total_pages
    /\ \E page_markdown \in PageTexts \cup {Raised} :
         /\ page_results' = Append(page_results, page_markdown)
         /\ IF page_markdown = Raised
            THEN /\ \E written \in BOOLEAN :
                      page_images' = IF written
                                     THEN write_page_image(page_images, page_num)
                                     ELSE page_images
                 /\ UNCHANGED <<markdown_pages, conversion_progress>>
            ELSE /\ page_images' = remove_page_image(
                                       write_page_image(page_images, page_num), page_num)
                 /\ markdown_pages' = append_page(markdown_pages, page_markdown)
                 /\ update_progress(PageProgress(page_num + 1, total_pages),
                                    "Processed page with VLM", NoKwargs)
    /\ page_num' = page_num + 1
    /\ UNCHANGED <<services, config, rec, cur, pc, total_pages, markdown_content,
                   vlm_markdown, exc, output_filename, result, outcome, baseline,
                   formatted, retryVars, temp_files, cleanup_timers, terminal_age,
                   registryVars, promptVars, helperVars, pipeline_templates>>

\* _process_with_vlm after the loop: doc.close(); the joined pages or None
VlmReturn ==
    /\ pc = "vlm_page"
    /\ page_num = total_pages
    /\ vlm_markdown' = IF markdown_pages # <<>> THEN join(PAGE_SEPARATOR, markdown_pages)
                       ELSE None
    /\ pc' = "vlm_returned"
    /\ UNCHANGED <<services, config, rec, conversion_progress, cur, total_pages,
                   markdown_content, markdown_pages, page_num, exc, output_filename,
                   result, outcome, baseline, formatted, page_results, retryVars, serverVars>>

\* convert_pdf, `if vlm_markdown:` true: update_progress(85, "VLM processing complete")
PublishVlmComplete ==
    /\ pc = "vlm_returned"
    /\ Truthy(vlm_markdown)
    /\ markdown_content' = vlm_markdown
    /\ update_progress(85, "VLM processing complete", NoKwargs)
    /\ pc' = "finalize"
    /\ UNCHANGED <<services, config, rec, cur, total_pages, vlm_markdown,
                   markdown_pages, page_num, exc, output_filename, result, outcome,
                   baseline, formatted, page_results, retryVars, serverVars>>

\* ------------------------------------------------------------------ retry
\* DatabaseManager.get_conversion_by_id returns `dict(row)`: the row's columns are
\* keys of a dict, not attributes, so `record.retry_count` raises AttributeError
RowHasAttributes == FALSE

\* get_setting('app_settings.max_retries', 3): the key is not in the configuration
max_retries == 3

\* backoff_delay = min(2 ** record.retry_count, 60)
BackoffCap == 60
backoff_delay(retry_count) ==
    IF 2 ^ retry_count < BackoffCap THEN 2 ^ retry_count ELSE BackoffCap

\* ConversionPipeline.retry_conversion: what it raises or returns, the table after,
\* the seconds it spent in time.sleep (0: time.sleep was not reached) and the
\* ceiling it read at line 385 (0: the line was not reached)
pipeline_retry_conversion(db, id) ==
    IF db[id] = NoRecord
    THEN [raised |-> "ValueError: not found", returned |-> NoneId, db |-> db, slept |-> 0,
          ceiling |-> 0]
    ELSE IF ~RowHasAttributes
    THEN [raised |-> "AttributeError", returned |-> NoneId, db |-> db, slept |-> 0,
          ceiling |-> max_retries]
    ELSE IF db[id].retry_count >= max_retries
    THEN [raised |-> "ValueError: maximum retries exceeded", returned |-> NoneId, db |-> db,
          slept |-> 0, ceiling |-> max_retries]
    ELSE [raised |-> NoneId, returned |-> "retry_initiated",
          db |-> update_conversion_status(increment_retry_count(db, id), id,
                                          "processing", None, NoKwargs),
          slept |-> backoff_delay(db[id].retry_count), ceiling |-> max_retries]

\* app.retry_conversion, POST /api/history/<conversion_id>/retry: the table after the
\* request and the HTTP status; inc_ok / upd_ok: whether the two writes of the
\* endpoint succeed (a raising write ends the request with 500); slept: the seconds
\* the request spent in the time.sleep of the pipeline before it was answered
NotReached == [raised |-> NoneId, ceiling |-> 0]
retry_endpoint(db, id, inc_ok, upd_ok) ==
    IF db[id] = NoRecord THEN [code |-> 404, db |-> db, slept |-> 0, pipeline |-> NotReached]
    ELSE IF ~is_retryable(db[id], global_retry_attempts)
    THEN [code |-> 400, db |-> db, slept |-> 0, pipeline |-> NotReached]
    ELSE IF ~inc_ok THEN [code |-> 500, db |-> db, slept |-> 0, pipeline |-> NotReached]
    ELSE IF ~upd_ok
    THEN [code |-> 500, db |-> increment_retry_count(db, id), slept |-> 0,
          pipeline |-> NotReached]
    ELSE LET retry_result ==
                 pipeline_retry_conversion(
                     update_conversion_status(increment_retry_count(db, id), id,
                                              "retrying", None, NoKwargs), id)
         IN  [code |-> 200, db |-> retry_result.db, slept |-> retry_result.slept,
              pipeline |-> [raised |-> retry_result.raised,
                            ceiling |-> retry_result.ceiling]]

\* a client posts a retry request for some conversion id
retry_conversion ==
    /\ \E id \in ConvIds \cap {cur}, inc_ok \in BOOLEAN, upd_ok \in BOOLEAN :
         LET r == retry_endpoint(rec, id, inc_ok, upd_ok) IN
         /\ rec' = r.db
         /\ retry_response' = [via |-> "endpoint", id |-> id, code |-> r.code,
                               slept |-> r.slept, pipeline |-> r.pipeline]
    /\ UNCHANGED <<services, config, conversion_progress, workerVars, serverVars,
                   retry_flight>>

\* ConversionPipeline.retry_conversion called directly (as test_retry_functionality does)
pipeline_retry ==
    /\ \E id \in ConvIds \cap {cur} :
         LET r == pipeline_retry_conversion(rec, id) IN
         /\ rec' = r.db
         /\ retry_response' = [via |-> "pipeline", id |-> id, raised |-> r.raised,
                               returned |-> r.returned, slept |-> r.slept]
    /\ UNCHANGED <<services, config, conversion_progress, workerVars, serverVars,
                   retry_flight>>


\* ------------------------------------------- polling, cleanup, other uploads
\* get_progress: time.sleep(5) of cleanup_progress
GraceWindow == 5

\* app.convert for an upload of another client, a conversion not followed here: its
\* clean-up loop removes every temp_*.pdf of the directory before its own is saved
convert_another ==
    /\ temp_files' = {}
    /\ UNCHANGED <<services, config, rec, conversion_progress, workerVars, retryVars,
                   cleanup_timers, terminal_age, registryVars, promptVars, helperVars, page_images, pipeline_templates>>

\* app.get_progress, GET /progress/<conversion_id>: 404 without an entry; for a
\* completed or error entry the temp file is removed and a cleanup_progress thread
\* is started
get_progress ==
    /\ \E id \in ConvIds :
         IF conversion_progress[id] # NoEntry
            /\ conversion_progress[id].status \in {"completed", "error"}
         THEN /\ temp_files' = temp_files \ {id}
              /\ cleanup_timers' = [cleanup_timers EXCEPT ![id] = @ \cup {GraceWindow}]
         ELSE UNCHANGED <<temp_files, cleanup_timers>>
    /\ UNCHANGED <<services, config, rec, conversion_progress, workerVars, retryVars,
                   terminal_age, registryVars, promptVars, helperVars, page_images, pipeline_templates>>

\* cleanup_progress after its sleep: `if conversion_id in conversion_progress: del ...`
\* (more: another thread started by a poll at the same time is still to run)
cleanup_progress ==
    /\ \E id \in ConvIds, more \in BOOLEAN :
         /\ 0 \in cleanup_timers[id]
         /\ cleanup_timers' = [cleanup_timers EXCEPT ![id] = IF more THEN @ ELSE @ \ {0}]
         /\ conversion_progress' = [conversion_progress EXCEPT ![id] = NoEntry]
    /\ UNCHANGED <<services, config, rec, workerVars, retryVars, temp_files, terminal_age,
                   registryVars, promptVars, helperVars, page_images, pipeline_templates>>

\* one unit of time passes: every sleeping cleanup thread has one unit less to sleep
Tick ==
    /\ cleanup_timers' =
          [id \in ConvIds |-> {IF t = 0 THEN 0 ELSE t - 1 : t \in cleanup_timers[id]}]
    /\ terminal_age' =
          [id \in ConvIds |->
              IF /\ conversion_progress[id] # NoEntry
                 /\ conversion_progress[id].status \in {"completed", "error"}
                 /\ terminal_age[id] < GraceWindow
              THEN terminal_age[id] + 1
              ELSE terminal_age[id]]
    /\ UNCHANGED <<services, config, rec, conversion_progress, workerVars, retryVars,
                   temp_files, registryVars, promptVars, helperVars, page_images, pipeline_templates>>

\* ------------------------------------------------------- provider registry
\* AIServiceFactory.SERVICE_TYPES
SERVICE_TYPES == {"anthropic", "ollama", "mock"}

\* validate_service_config: the keys of the errors found (required_fields_present:
\* display_name, type and the api_key / api_base_url / model the type requires)
validate_service_config(provider_config) ==
    (IF provider_config.required_fields_present THEN {} ELSE {"required_fields"})
    \cup (IF ~provider_config.is_htr_capable /\ ~provider_config.is_formatting_capable
          THEN {"capabilities"} ELSE {})

\* AIServiceInterface.validate_config and its overrides, on the created service
validate_config(provider_config) ==
    (IF provider_config.required_fields_present THEN {} ELSE {"required_fields"})
    \cup (IF ~provider_config.is_htr_capable /\ ~provider_config.is_formatting_capable
          THEN {"capabilities"} ELSE {})

\* AIServiceFactory.register_service: TRUE iff the service is created and stored
\* (unknown type, ValueError of create_service_from_config, validation errors: False)
registers(provider_config) ==
    /\ provider_config.type \in SERVICE_TYPES
    /\ validate_service_config(provider_config) = {}
    /\ validate_config(provider_config) = {}

\* AIServiceFactory.get_services_by_capability: the ids of the services returned
get_services_by_capability_any_enabled(svcs, capability) ==
    {id \in DOMAIN svcs : supports_capability(svcs[id], capability)}

get_services_by_capability(svcs, capability) ==
    {id \in DOMAIN svcs : supports_capability(svcs[id], capability) /\ svcs[id].enabled}

\* AIServiceFactory.get_service
get_service(svcs, id) == IF id \in DOMAIN svcs THEN svcs[id] ELSE None

\* the provider ids and configurations clients register
RegistryIds == {"ollama_llava"}
RegistryConfigs ==
    [type : {"ollama", "azure"}, required_fields_present : BOOLEAN, enabled : BOOLEAN,
     is_htr_capable : BOOLEAN, is_formatting_capable : BOOLEAN,
     is_layout_capable : BOOLEAN, is_vlm_capable : BOOLEAN,
     is_document_intelligence_capable : BOOLEAN]

\* AIServiceFactory.register_service(provider_id, config)
register_service ==
    /\ \E id \in RegistryIds, provider_config \in RegistryConfigs :
         IF registers(provider_config)
         THEN /\ services' = (id :> provider_config) @@ services
              /\ factory_config' = (id :> provider_config) @@ factory_config
              /\ registry_response' = [op |-> "register", id |-> id,
                                       config |-> provider_config, returned |-> TRUE]
         ELSE /\ UNCHANGED <<services, factory_config>>
              /\ registry_response' = [op |-> "register", id |-> id,
                                       config |-> provider_config, returned |-> FALSE]
    /\ UNCHANGED <<config, rec, conversion_progress, workerVars, retryVars, temp_files,
                   cleanup_timers, terminal_age, in_flight,
                   promptVars, helperVars, page_images, pipeline_templates>>

\* AIServiceFactory.unregister_service(provider_id)
unregister_service ==
    /\ \E id \in RegistryIds \cup {"ollama_mistral"} :
         IF id \in DOMAIN services
         THEN /\ services' = [i \in DOMAIN services \ {id} |-> services[i]]
              /\ factory_config' = [i \in DOMAIN factory_config \ {id} |-> factory_config[i]]
              /\ registry_response' = [op |-> "unregister", id |-> id, returned |-> TRUE]
         ELSE /\ UNCHANGED <<services, factory_config>>
              /\ registry_response' = [op |-> "unregister", id |-> id, returned |-> FALSE]
    /\ UNCHANGED <<config, rec, conversion_progress, workerVars, retryVars, temp_files,
                   cleanup_timers, terminal_age, in_flight,
                   promptVars, helperVars, page_images, pipeline_templates>>

\* ------------------------------------------------------------ specifications
\* the application as shipped
Next ==
    \/ convert
    \/ convert_pdf_with_progress
    \/ OpenDocument
    \/ CreateRecord
    \/ PublishInitializing
    \/ SetProcessing
    \/ ProcessWithVlmGuard
    \/ PublishExtracting
    \/ ExtractMarkdown
    \/ PublishEnhancing
    \/ PublishEnhancementDisabled
    \/ GetFormattingService
    \/ EnhanceMarkdown
    \/ FinalizeOutput
    \/ PublishComplete
    \/ CompleteRecord
    \/ PublishPipelineComplete
    \/ FailRecord
    \/ PublishError
    \/ Reraise
    \/ retry_conversion
    \/ pipeline_retry

Spec == Init /\ [][Next]_vars

\* the steps of the worker thread that app.convert starts (Thread(...).start())
WorkerNext ==
    \/ convert_pdf_with_progress
    \/ OpenDocument
    \/ CreateRecord
    \/ PublishInitializing
    \/ SetProcessing
    \/ ProcessWithVlmGuard
    \/ PublishExtracting
    \/ ExtractMarkdown
    \/ PublishEnhancing
    \/ PublishEnhancementDisabled
    \/ GetFormattingService
    \/ EnhanceMarkdown
    \/ FinalizeOutput
    \/ PublishComplete
    \/ CompleteRecord
    \/ PublishPipelineComplete
    \/ FailRecord
    \/ PublishError
    \/ Reraise

\* the application with a scheduler that lets a started worker thread run on;
\* clients are free to post requests or not
FairSpec == Spec /\ WF_vars(WorkerNext)

\* the server: uploads, the worker, the polls of the clients, the cleanup threads
NextServer ==
    \/ WorkerNext
    \/ convert
    \/ convert_another
    \/ get_progress
    \/ cleanup_progress
    \/ Tick

\* the server started with DEFAULT_CONFIG_STRUCTURE (formatting by
\* anthropic_claude_haiku, no VLM provider) or with the formatting provider unset
InitServer ==
    /\ Init
    /\ config.vlm_provider_id = NoneId
    /\ config.formatting_provider_id \in {NoneId, "anthropic_claude_haiku"}

SpecServer == InitServer /\ [][NextServer]_vars

\* the server with a scheduler that lets started threads run on and time pass;
\* clients are free to upload and to poll or not
FairSpecServer ==
    SpecServer /\ WF_vars(WorkerNext) /\ WF_vars(cleanup_progress) /\ WF_vars(Tick)

\* the provider registry on its own, started with the default providers
InitRegistry ==
    /\ Init
    /\ config = [vlm_provider_id |-> NoneId, formatting_provider_id |-> NoneId]

NextRegistry ==
    \/ register_service
    \/ unregister_service

SpecRegistry == InitRegistry /\ [][NextRegistry]_vars

\* The registry under concurrent requests: register_service and unregister_service
\* cut at the points where another thread can run, between the two dictionary
\* stores of lines 78 and 79 and between the two deletions of lines 99 and 100
\* (AIServiceFactory holds no lock).
LlavaHtr ==
    [type |-> "ollama", required_fields_present |-> TRUE, enabled |-> TRUE,
     is_htr_capable |-> TRUE, is_formatting_capable |-> FALSE,
     is_layout_capable |-> FALSE, is_vlm_capable |-> TRUE,
     is_document_intelligence_capable |-> FALSE]
LlavaFormatting ==
    [type |-> "ollama", required_fields_present |-> TRUE, enabled |-> TRUE,
     is_htr_capable |-> FALSE, is_formatting_capable |-> TRUE,
     is_layout_capable |-> FALSE, is_vlm_capable |-> FALSE,
     is_document_intelligence_capable |-> FALSE]
AzureUnsupported ==
    [type |-> "azure", required_fields_present |-> TRUE, enabled |-> TRUE,
     is_htr_capable |-> TRUE, is_formatting_capable |-> TRUE,
     is_layout_capable |-> FALSE, is_vlm_capable |-> FALSE,
     is_document_intelligence_capable |-> FALSE]
ThreadConfigs == {LlavaHtr, LlavaFormatting, AzureUnsupported}

\* register_service, lines 61-78: validate, create, self._services[provider_id] = service
register_service_store_service(t) ==
    /\ in_flight[t] = Idle
    /\ \E id \in RegistryIds, provider_config \in ThreadConfigs :
         IF registers(provider_config)
         THEN /\ services' = (id :> provider_config) @@ services
              /\ in_flight' = [in_flight EXCEPT ![t] = [at |-> "line 79", id |-> id,
                                                        config |-> provider_config]]
              /\ UNCHANGED registry_response
         ELSE /\ registry_response' = [op |-> "register", id |-> id,
                                       config |-> provider_config, returned |-> FALSE]
              /\ UNCHANGED <<services, in_flight>>
    /\ UNCHANGED <<config, rec, conversion_progress, workerVars, retryVars, temp_files,
                   cleanup_timers, terminal_age, factory_config,
                   promptVars, helperVars, page_images, pipeline_templates>>

\* register_service, lines 79-82: self._config[provider_id] = config.copy(); return True
register_service_store_config(t) ==
    /\ in_flight[t] # Idle
    /\ in_flight[t].at = "line 79"
    /\ factory_config' = (in_flight[t].id :> in_flight[t].config) @@ factory_config
    /\ registry_response' = [op |-> "register", id |-> in_flight[t].id,
                             config |-> in_flight[t].config, returned |-> TRUE]
    /\ in_flight' = [in_flight EXCEPT ![t] = Idle]
    /\ UNCHANGED <<services, config, rec, conversion_progress, workerVars, retryVars,
                   temp_files, cleanup_timers, terminal_age,
                   promptVars, helperVars, page_images, pipeline_templates>>

\* unregister_service, lines 98-99: if provider_id in self._services: del self._services[...]
unregister_service_del_service(t) ==
    /\ in_flight[t] = Idle
    /\ \E id \in RegistryIds \cup {"ollama_mistral"} :
         IF id \in DOMAIN services
         THEN /\ services' = [i \in DOMAIN services \ {id} |-> services[i]]
              /\ in_flight' = [in_flight EXCEPT ![t] = [at |-> "line 100", id |-> id]]
              /\ UNCHANGED registry_response
         ELSE /\ registry_response' = [op |-> "unregister", id |-> id, returned |-> FALSE]
              /\ UNCHANGED <<services, in_flight>>
    /\ UNCHANGED <<config, rec, conversion_progress, workerVars, retryVars, temp_files,
                   cleanup_timers, terminal_age, factory_config,
                   promptVars, helperVars, page_images, pipeline_templates>>

\* unregister_service, lines 100-102: del self._config[provider_id] (KeyError when
\* the id has no stored configuration; nothing catches it); return True
unregister_service_del_config(t) ==
    /\ in_flight[t] # Idle
    /\ in_flight[t].at = "line 100"
    /\ IF in_flight[t].id \in DOMAIN factory_config
       THEN /\ factory_config' = [i \in DOMAIN factory_config \ {in_flight[t].id}
                                    |-> factory_config[i]]
            /\ registry_response' = [op |-> "unregister", id |-> in_flight[t].id,
                                     returned |-> TRUE]
       ELSE /\ registry_response' = [op |-> "unregister", id |-> in_flight[t].id,
                                     raised |-> <<"KeyError">>]
            /\ UNCHANGED factory_config
    /\ in_flight' = [in_flight EXCEPT ![t] = Idle]
    /\ UNCHANGED <<services, config, rec, conversion_progress, workerVars, retryVars,
                   temp_files, cleanup_timers, terminal_age,
                   promptVars, helperVars, page_images, pipeline_templates>>

NextRegistryThreads ==
    \/ \E t \in Threads : register_service_store_service(t)
    \/ \E t \in Threads : register_service_store_config(t)
    \/ \E t \in Threads : unregister_service_del_service(t)
    \/ \E t \in Threads : unregister_service_del_config(t)

SpecRegistryThreads == InitRegistry /\ [][NextRegistryThreads]_vars

\* Reloading the providers: POST /api/providers/reload with the configuration the
\* ConfigManager holds at that time.
ReloadIds == {"anthropic_claude_haiku", "ollama_mistral", "ollama_llava"}
AiProviderConfigs == UNION {[ids -> ThreadConfigs] : ids \in SUBSET ReloadIds}

\* AIServiceFactory.load_from_config on the registry svcs: register_service for
\* every provider of ai_provider_configs, and nothing else
load_from_config(svcs, ai_configs) ==
    LET loaded == {id \in DOMAIN ai_configs : registers(ai_configs[id])}
    IN  [id \in DOMAIN svcs \cup loaded |->
            IF id \in loaded THEN ai_configs[id] ELSE svcs[id]]

\* initialize_ai_services: the global factory (get_ai_service_factory), loaded again
initialize_ai_services(svcs, ai_configs) == load_from_config(svcs, ai_configs)

\* app.reload_providers
reload_providers ==
    /\ \E ai_configs \in AiProviderConfigs :
         /\ services' = initialize_ai_services(services, ai_configs)
         /\ factory_config' = initialize_ai_services(factory_config, ai_configs)
         /\ registry_response' = [op |-> "reload", ai_provider_configs |-> ai_configs,
                                  code |-> 200]
    /\ UNCHANGED <<config, rec, conversion_progress, workerVars, retryVars, temp_files,
                   cleanup_timers, terminal_age, in_flight,
                   promptVars, helperVars, page_images, pipeline_templates>>

NextReload ==
    \/ reload_providers
    \/ unregister_service

SpecReload == InitRegistry /\ [][NextReload]_vars

\* the server with clients that upload, poll and ask for retries
NextServerRetry ==
    \/ WorkerNext
    \/ convert
    \/ get_progress
    \/ retry_conversion

SpecServerRetry == InitServer /\ [][NextServerRetry]_vars

\* ------------------------------------------------------------ prompt templates
\* the replacement fields {content} and {filename} of template contents
VariableNames == {"content", "filename"}
Field == [v \in VariableNames |-> IF v = "content" THEN "{content}" ELSE "{filename}"]
IsField(part) == \E v \in VariableNames : Field[v] = part
FieldName(part) == CHOOSE v \in VariableNames : Field[v] = part

\* the template names, contents and keyword arguments clients use
CustomNames == {"custom_notes"}
MissingNames == {"formatting_letters", "summary"}
TemplateContents == {<<"text">>, <<"text", "{content}">>, <<"{content}", "{filename}">>}
Kwargs == UNION {[given -> {"doc"}] : given \in SUBSET VariableNames}

\* PromptManager._extract_variables: re.findall(r'\{(\w+)\}', content)
extract_variables(content) ==
    {FieldName(content[i]) : i \in {j \in DOMAIN content : IsField(content[j])}}

\* every replacement field that kwargs has a value for replaced, the others left
substitute(content, kwargs) ==
    [i \in DOMAIN content |->
        IF IsField(content[i]) /\ FieldName(content[i]) \in DOMAIN kwargs
        THEN kwargs[FieldName(content[i])]
        ELSE content[i]]

\* str.format(**kwargs): KeyError at the first field kwargs has no value for
str_format(content, kwargs) ==
    IF extract_variables(content) \subseteq DOMAIN kwargs
    THEN [raised |-> NoneId, returned |-> substitute(content, kwargs)]
    ELSE [raised |-> "KeyError", returned |-> None]

\* PromptTemplate.format: except KeyError: return self.content
format(content, kwargs) ==
    IF str_format(content, kwargs).raised = "KeyError"
    THEN content
    ELSE str_format(content, kwargs).returned

\* template_name.startswith(prefix), for the names in use
startswith(template_name, prefix) ==
    \/ prefix = "htr_" /\ template_name \in {"htr_default"}
    \/ prefix = "formatting_" /\ template_name \in {"formatting_clean", "formatting_letters"}
    \/ prefix = "vlm_" /\ template_name \in {"vlm_direct"}

\* PromptManager._get_fallback_prompt
get_fallback_prompt(template_name, kwargs) ==
    IF startswith(template_name, "htr_") THEN DEFAULT_PROMPT_TEMPLATES["htr_default"]
    ELSE IF startswith(template_name, "formatting_")
    THEN substitute(DEFAULT_PROMPT_TEMPLATES["formatting_clean"],
                    [v \in {"content"} |->
                        IF "content" \in DOMAIN kwargs THEN kwargs["content"]
                        ELSE "[No content provided]"])
    ELSE IF startswith(template_name, "vlm_") THEN DEFAULT_PROMPT_TEMPLATES["vlm_direct"]
    ELSE <<"Please process this content appropriately.">>

\* PromptManager.get_prompt(template_name, **variables)
get_prompt(tpls, template_name, kwargs) ==
    IF template_name \notin DOMAIN tpls
    THEN get_fallback_prompt(template_name, kwargs)
    ELSE format(tpls[template_name], kwargs)

\* PromptManager.add_template (a failing _save_custom_templates only logs)
add_template(tpls, name, content) ==
    [returned |-> TRUE, templates |-> (name :> content) @@ tpls]

\* PromptManager.update_template(name, content)
update_template(tpls, name, content) ==
    IF name \notin DOMAIN tpls THEN [returned |-> FALSE, templates |-> tpls]
    ELSE [returned |-> TRUE,
          templates |-> IF content # None THEN [tpls EXCEPT ![name] = content] ELSE tpls]

\* PromptManager.delete_template, had it deleted whatever name it is given
delete_template_any(tpls, name) ==
    IF name \notin DOMAIN tpls THEN [returned |-> FALSE, templates |-> tpls]
    ELSE [returned |-> TRUE, templates |-> [n \in DOMAIN tpls \ {name} |-> tpls[n]]]

\* PromptManager.delete_template
delete_template(tpls, name) ==
    IF name \in DOMAIN DEFAULT_PROMPT_TEMPLATES THEN [returned |-> FALSE, templates |-> tpls]
    ELSE IF name \notin DOMAIN tpls THEN [returned |-> FALSE, templates |-> tpls]
    ELSE [returned |-> TRUE, templates |-> [n \in DOMAIN tpls \ {name} |-> tpls[n]]]

PromptUnchanged ==
    UNCHANGED <<services, config, rec, conversion_progress, workerVars, retryVars,
                temp_files, cleanup_timers, terminal_age, registryVars, helperVars, page_images, pipeline_templates>>

\* a caller renders a prompt
GetPrompt ==
    /\ \E template_name \in DOMAIN DEFAULT_PROMPT_TEMPLATES \cup CustomNames \cup MissingNames,
          kwargs \in Kwargs :
         prompt_response' = [op |-> "get_prompt", name |-> template_name,
                             kwargs |-> kwargs,
                             returned |-> get_prompt(templates, template_name, kwargs)]
    /\ UNCHANGED templates
    /\ PromptUnchanged

AddTemplate ==
    /\ \E name \in DOMAIN DEFAULT_PROMPT_TEMPLATES \cup CustomNames,
          content \in TemplateContents :
         /\ templates' = add_template(templates, name, content).templates
         /\ prompt_response' = [op |-> "add_template", name |-> name,
                                returned |-> add_template(templates, name, content).returned]
    /\ PromptUnchanged

UpdateTemplate ==
    /\ \E name \in DOMAIN DEFAULT_PROMPT_TEMPLATES \cup CustomNames,
          content \in TemplateContents \cup {None} :
         /\ templates' = update_template(templates, name, content).templates
         /\ prompt_response' = [op |-> "update_template", name |-> name,
                                returned |-> update_template(templates, name, content).returned]
    /\ PromptUnchanged

DeleteTemplate ==
    /\ \E name \in DOMAIN DEFAULT_PROMPT_TEMPLATES \cup CustomNames :
         /\ templates' = delete_template(templates, name).templates
         /\ prompt_response' = [op |-> "delete_template", name |-> name,
                                returned |-> delete_template(templates, name).returned]
    /\ PromptUnchanged

NextPrompt ==
    \/ GetPrompt
    \/ AddTemplate
    \/ UpdateTemplate
    \/ DeleteTemplate

\* the prompt manager on its own, started with the built-in templates
SpecPrompt == InitRegistry /\ [][NextPrompt]_vars

\* _process_with_vlm, lines 328-334: a conversion resolves its prompt through
\* self.prompt_manager, the PromptManager that ConversionPipeline.__init__ constructed
\* for itself; the module-level prompt_manager of app.py, on which the /api/prompts
\* endpoints act (templates), is another instance, and nothing reloads either one
PipelineGetPrompt ==
    /\ \E template_name \in DOMAIN DEFAULT_PROMPT_TEMPLATES \cup CustomNames \cup MissingNames,
          kwargs \in Kwargs :
         prompt_response' = [op |-> "pipeline_get_prompt", name |-> template_name,
                             kwargs |-> kwargs,
                             returned |-> get_prompt(pipeline_templates, template_name,
                                                     kwargs)]
    /\ UNCHANGED templates
    /\ PromptUnchanged

\* POST /api/prompts: a name that exists is answered 409 and nothing is added;
\* otherwise prompt_manager.add_template (the contents clients send here all pass
\* validate_template: none is empty and each formats with dummy variables)
create_prompt ==
    /\ \E name \in DOMAIN DEFAULT_PROMPT_TEMPLATES \cup CustomNames,
          content \in TemplateContents :
         IF name \in DOMAIN templates
         THEN /\ prompt_response' = [op |-> "create_prompt", name |-> name, code |-> 409]
              /\ UNCHANGED templates
         ELSE /\ templates' = add_template(templates, name, content).templates
              /\ prompt_response' = [op |-> "create_prompt", name |-> name,
                                     code |-> IF add_template(templates, name, content).returned
                                              THEN 201 ELSE 500]
    /\ PromptUnchanged

\* the running application: the /api/prompts endpoints (PUT and DELETE hand the
\* request to update_template and delete_template) and the conversions' prompts
NextPromptApp ==
    \/ GetPrompt
    \/ create_prompt
    \/ UpdateTemplate
    \/ DeleteTemplate
    \/ PipelineGetPrompt

SpecPromptApp == InitRegistry /\ [][NextPromptApp]_vars

\* ------------------------------------------------------------ helpers of convert_pdf
\* Python str values are sequences of one-character strings.
DateToken == <<"Y", "Y", "Y", "Y", "-", "M", "M", "-", "D", "D">>
NameToken == <<"[", "O", "r", "i", "g", "i", "n", "a", "l", "F", "i", "l", "e", "N", "a", "m", "e", "]">>

StartsWithAt(s, old, i) ==
    /\ i + Len(old) - 1 <= Len(s)
    /\ SubSeq(s, i, i + Len(old) - 1) = old

\* s contains old as a substring (old in s)
contains(s, old) == \E i \in 1..Len(s) : StartsWithAt(s, old, i)

\* str.replace, had it replaced the first occurrence only
RECURSIVE replace_first_from(_, _, _, _)
replace_first_from(s, old, new, i) ==
    IF i > Len(s) THEN <<>>
    ELSE IF StartsWithAt(s, old, i)
    THEN new \o SubSeq(s, i + Len(old), Len(s))
    ELSE <<s[i]>> \o replace_first_from(s, old, new, i + 1)

replace_first(s, old, new) == replace_first_from(s, old, new, 1)

\* str.replace(old, new): every non-overlapping occurrence, scanning from the left
RECURSIVE replace_from(_, _, _, _)
replace_from(s, old, new, i) ==
    IF i > Len(s) THEN <<>>
    ELSE IF StartsWithAt(s, old, i)
    THEN new \o replace_from(s, old, new, i + Len(old))
    ELSE <<s[i]>> \o replace_from(s, old, new, i + 1)

replace(s, old, new) == replace_from(s, old, new, 1)

\* str.rfind(c), 1-based; 0 when c does not occur
rfind(s, c) ==
    IF \E i \in 1..Len(s) : s[i] = c
    THEN CHOOSE i \in 1..Len(s) : s[i] = c /\ \A j \in (i + 1)..Len(s) : s[j] # c
    ELSE 0

\* os.path.splitext(p): the last dot after the last separator starts the
\* extension, unless only dots precede it in the file name
splitext(p) ==
    LET sepIndex == rfind(p, "/")
        dotIndex == rfind(p, ".")
    IN  IF /\ dotIndex > sepIndex
           /\ \E k \in (sepIndex + 1)..(dotIndex - 1) : p[k] # "."
        THEN <<SubSeq(p, 1, dotIndex - 1), SubSeq(p, dotIndex, Len(p))>>
        ELSE <<p, <<>>>>

\* convert_pdf, lines 157-160: the output filename for a pattern, a date and a filename
output_filename_for(output_pattern, timestamp_str, filename) ==
    LET base_filename == splitext(filename)[1]
    IN  replace(replace(output_pattern, DateToken, timestamp_str), NameToken, base_filename)

\* the output patterns, dates and filenames the helpers are applied to
OutputPatterns ==
    {<<"Y", "Y", "Y", "Y", "-", "M", "M", "-", "D", "D", "-", "[", "O", "r", "i", "g", "i", "n", "a", "l", "F", "i", "l", "e", "N", "a", "m", "e", "]", ".", "m", "d">>,
     <<"[", "O", "r", "i", "g", "i", "n", "a", "l", "F", "i", "l", "e", "N", "a", "m", "e", "]", ".", "m", "d">>,
     <<"[", "O", "r", "i", "g", "i", "n", "a", "l", "F", "i", "l", "e", "N", "a", "m", "e", "]", "-", "[", "O", "r", "i", "g", "i", "n", "a", "l", "F", "i", "l", "e", "N", "a", "m", "e", "]">>,
     <<"o", "u", "t", ".", "m", "d">>,
     <<"[", "[", "O", "r", "i", "g", "i", "n", "a", "l", "F", "i", "l", "e", "N", "a", "m", "e", "]", "]">>,
     <<"Y", "Y", "Y", "Y", "Y", "-", "M", "M", "-", "D", "D">>,
     <<"Y", "Y", "Y", "Y", "-", "M", "M", "-", "D", "D", "_", "Y", "Y", "Y", "Y", "-", "M", "M", "-", "D", "D", ".", "[", "e", "x", "t", "]">>}
\* datetime.now().strftime('%Y-%m-%d')
Dates ==
    {<<"2", "0", "2", "4", "-", "0", "3", "-", "0", "5">>,
     <<"1", "9", "9", "9", "-", "1", "2", "-", "3", "1">>,
     <<"2", "0", "2", "6", "-", "1", "1", "-", "0", "6">>}
\* the names of uploaded files
Filenames ==
    {<<"r", "e", "p", "o", "r", "t", ".", "p", "d", "f">>,
     <<"a", ".", "b", ".", "p", "d", "f">>,
     <<"r", "e", "p", "o", "r", "t">>,
     <<".", "p", "d", "f">>,
     <<"Y", "Y", "Y", "Y", "-", "M", "M", "-", "D", "D", ".", "p", "d", "f">>,
     <<"d", "i", "r", "/", "S", "c", "a", "n", ".", "P", "D", "F">>,
     <<"m", "e", "e", "t", "i", "n", "g", "_", "n", "o", "t", "e", "s", ".", "p", "d", "f">>,
     <<"R", "e", "s", "e", "a", "r", "c", "h", "_", "P", "a", "p", "e", "r", "_", "F", "i", "n", "a", "l", ".", "p", "d", "f">>,
     <<"s", "c", "a", "n", "0", "0", "1", ".", "p", "d", "f">>,
     <<"T", "h", "e", "s", "i", "s", " ", "n", "o", "t", "e", "s", ".", "p", "d", "f">>,
     <<"s", "u", "r", "v", "e", "y", " ", "m", "e", "m", "o", ".", "p", "d", "f">>,
     <<"P", "L", "A", "T", "F", "O", "R", "M", ".", "p", "d", "f">>,
     <<"a", "p", "p", "l", "i", "c", "a", "t", "i", "o", "n", ".", "p", "d", "f">>}

\* str.lower, on the letters that occur in Filenames
lower_unchanged(s) == s

Upper == <<"A", "C", "D", "F", "L", "M", "O", "P", "R", "S", "T", "Y">>
Lower == <<"a", "c", "d", "f", "l", "m", "o", "p", "r", "s", "t", "y">>
lower(s) ==
    [i \in DOMAIN s |->
        IF \E k \in DOMAIN Upper : Upper[k] = s[i]
        THEN Lower[CHOOSE k \in DOMAIN Upper : Upper[k] = s[i]]
        ELSE s[i]]

\* the keyword lists of _determine_document_type
AcademicKeywords ==
    {<<"a", "c", "a", "d", "e", "m", "i", "c">>,
     <<"p", "a", "p", "e", "r">>,
     <<"j", "o", "u", "r", "n", "a", "l">>,
     <<"r", "e", "s", "e", "a", "r", "c", "h">>,
     <<"t", "h", "e", "s", "i", "s">>}
NotesKeywords ==
    {<<"n", "o", "t", "e">>,
     <<"n", "o", "t", "e", "s">>,
     <<"m", "e", "e", "t", "i", "n", "g">>,
     <<"m", "e", "m", "o">>}
FormsKeywords ==
    {<<"f", "o", "r", "m">>,
     <<"a", "p", "p", "l", "i", "c", "a", "t", "i", "o", "n">>,
     <<"s", "u", "r", "v", "e", "y">>}

\* ConversionPipeline._determine_document_type
determine_document_type(filename) ==
    LET filename_lower == lower(filename)
    IN  IF \E keyword \in AcademicKeywords : contains(filename_lower, keyword)
        THEN "academic"
        ELSE IF \E keyword \in NotesKeywords : contains(filename_lower, keyword)
        THEN "notes"
        ELSE IF \E keyword \in FormsKeywords : contains(filename_lower, keyword)
        THEN "forms"
        ELSE "clean"

HelperUnchanged ==
    UNCHANGED <<services, config, rec, conversion_progress, workerVars, retryVars,
                temp_files, cleanup_timers, terminal_age, registryVars, promptVars, page_images, pipeline_templates>>

\* convert_pdf computes the output filename of a conversion
ComputeOutputFilename ==
    /\ \E output_pattern \in OutputPatterns, timestamp_str \in Dates, filename \in Filenames :
         /\ helper_call' = [fn |-> "output_filename", output_pattern |-> output_pattern,
                            timestamp_str |-> timestamp_str, filename |-> filename]
         /\ helper_result' = output_filename_for(output_pattern, timestamp_str, filename)
    /\ HelperUnchanged

\* the pipeline determines the document type of an uploaded file
DetermineDocumentType ==
    /\ \E filename \in Filenames :
         /\ helper_call' = [fn |-> "_determine_document_type", filename |-> filename]
         /\ helper_result' = determine_document_type(filename)
    /\ HelperUnchanged

NextHelpers ==
    \/ ComputeOutputFilename
    \/ DetermineDocumentType

\* the two pure helpers of the pipeline, applied to the inputs above
SpecHelpers == InitRegistry /\ [][NextHelpers]_vars

\* The retry endpoint under concurrent requests: app.retry_conversion cut at its
\* database calls, between which another request thread can run.
RetryUnchanged ==
    UNCHANGED <<services, config, conversion_progress, workerVars, serverVars>>

\* app.retry_conversion, lines 406-419: read the record, check is_retryable
retry_conversion_check(t) ==
    /\ retry_flight[t] = Idle
    /\ \E id \in ConvIds \cap {cur} :
         IF rec[id] = NoRecord
         THEN /\ retry_response' = [via |-> "endpoint", id |-> id, code |-> 404, slept |-> 0,
                                    pipeline |-> NotReached]
              /\ UNCHANGED retry_flight
         ELSE IF ~is_retryable(rec[id], global_retry_attempts)
         THEN /\ retry_response' = [via |-> "endpoint", id |-> id, code |-> 400, slept |-> 0,
                                    pipeline |-> NotReached]
              /\ UNCHANGED retry_flight
         ELSE /\ retry_flight' = [retry_flight EXCEPT ![t] = [at |-> "line 422", id |-> id]]
              /\ UNCHANGED retry_response
    /\ UNCHANGED rec
    /\ RetryUnchanged

\* app.retry_conversion, line 422: db_manager.increment_retry_count
retry_conversion_increment(t) ==
    /\ retry_flight[t] # Idle
    /\ retry_flight[t].at = "line 422"
    /\ \E inc_ok \in BOOLEAN :
         IF inc_ok
         THEN /\ rec' = increment_retry_count(rec, retry_flight[t].id)
              /\ retry_flight' = [retry_flight EXCEPT ![t] = [at |-> "line 425",
                                                              id |-> retry_flight[t].id]]
              /\ UNCHANGED retry_response
         ELSE /\ retry_response' = [via |-> "endpoint", id |-> retry_flight[t].id,
                                    code |-> 500, slept |-> 0, pipeline |-> NotReached]
              /\ retry_flight' = [retry_flight EXCEPT ![t] = Idle]
              /\ UNCHANGED rec
    /\ RetryUnchanged

\* app.retry_conversion, lines 425-450: set status retrying, call the pipeline, answer
retry_conversion_respond(t) ==
    /\ retry_flight[t] # Idle
    /\ retry_flight[t].at = "line 425"
    /\ \E upd_ok \in BOOLEAN :
         LET id == retry_flight[t].id
             retry_result ==
                 pipeline_retry_conversion(
                     update_conversion_status(rec, id, "retrying", None, NoKwargs), id)
         IN  IF upd_ok
             THEN /\ rec' = retry_result.db
                  /\ retry_response' = [via |-> "endpoint", id |-> id, code |-> 200,
                                        slept |-> retry_result.slept,
                                        pipeline |-> [raised |-> retry_result.raised,
                                                      ceiling |-> retry_result.ceiling]]
             ELSE /\ retry_response' = [via |-> "endpoint", id |-> id, code |-> 500,
                                        slept |-> 0, pipeline |-> NotReached]
                  /\ UNCHANGED rec
    /\ retry_flight' = [retry_flight EXCEPT ![t] = Idle]
    /\ RetryUnchanged

NextRetryThreads ==
    \/ WorkerNext
    \/ convert
    \/ \E t \in Threads : retry_conversion_check(t)
    \/ \E t \in Threads : retry_conversion_increment(t)
    \/ \E t \in Threads : retry_conversion_respond(t)

\* the server with request threads that post retry requests concurrently
SpecRetryThreads == InitServer /\ [][NextRetryThreads]_vars

\* The VLM path on its own: convert_pdf from line 305 of _process_with_vlm on, that
\* is past the three early returns of lines 296-303, for a conversion whose document
\* was opened and whose first two record writes succeeded or raised.  (Under Spec no
\* run gets there: see VlmGuardPasses.)
InitVlm ==
    /\ services = DefaultServices
    /\ config \in [vlm_provider_id : {"anthropic_claude_haiku"},
                   formatting_provider_id : ProviderChoices]
    /\ cur \in ConvIds
    /\ rec \in {[id \in ConvIds |-> NoRecord],
                create_conversion_record([id \in ConvIds |-> NoRecord], cur),
                update_conversion_status(
                    create_conversion_record([id \in ConvIds |-> NoRecord], cur),
                    cur, "processing", None, NoKwargs)}
    /\ total_pages \in 1..MaxPages
    /\ conversion_progress = [id \in ConvIds |->
            IF id = cur
            THEN [progress |-> 5, stage |-> "Initializing conversion...",
                  total_pages |-> total_pages, current_page |-> 0,
                  status |-> "processing"]
            ELSE NoEntry]
    /\ pc = "vlm_start"
    /\ markdown_content = None
    /\ vlm_markdown = None
    /\ markdown_pages = <<>>
    /\ page_num = 0
    /\ exc = None
    /\ output_filename = None
    /\ result = NoResult
    /\ outcome = "running"
    /\ baseline = None
    /\ formatted = NotCalled
    /\ page_results = <<>>
    /\ retry_response = NoResponse
    /\ retry_flight = [t \in Threads |-> Idle]
    /\ temp_files = {cur}
    /\ cleanup_timers = [id \in ConvIds |-> {}]
    /\ terminal_age = [id \in ConvIds |-> 0]
    /\ factory_config = DefaultServices
    /\ registry_response = NoResponse
    /\ in_flight = [t \in Threads |-> Idle]
    /\ templates = DEFAULT_PROMPT_TEMPLATES
    /\ prompt_response = NoResponse
    /\ helper_call = NoResponse
    /\ helper_result = None
    /\ page_images = {}
    /\ pipeline_templates = DEFAULT_PROMPT_TEMPLATES

NextVlm ==
    \/ PublishVlmStart
    \/ VlmOpenDocument
    \/ VlmProcessPage
    \/ VlmReturn
    \/ PublishVlmComplete
    \/ PublishExtracting
    \/ ExtractMarkdown
    \/ PublishEnhancing
    \/ PublishEnhancementDisabled
    \/ GetFormattingService
    \/ EnhanceMarkdown
    \/ FinalizeOutput
    \/ PublishComplete
    \/ CompleteRecord
    \/ PublishPipelineComplete
    \/ FailRecord
    \/ PublishError
    \/ Reraise

SpecVlm == InitVlm /\ [][NextVlm]_vars

\* ================================================================== claims
\* the progress entry and the row of the conversion the worker runs
Entry == conversion_progress[cur]
Record == rec[cur]

Terminal(entry) == entry.status \in {"completed", "error"}

\* the VLM answers that count as a processed page: returned and not empty
IsSuccess(r) == r # Raised /\ r # <<>>
Successes == SelectSeq(page_results, IsSuccess)

\* text that is empty or consists of white space only
IsBlank(t) == \A i \in 1..Len(t) : t[i] \in Whitespace

\* the formatting call raised, or returned nothing, or returned blank text
FormattingDegraded ==
    \/ formatted = Raised
    \/ formatted = None
    \/ formatted \in Texts /\ IsBlank(formatted)

C2_FinalStatus ==
    [][(pc # "done" /\ pc' = "done")
         => /\ rec'[cur] # NoRecord
            /\ outcome' = "returned" => rec'[cur].status = "completed"
            /\ outcome' = "raised" => rec'[cur].status = "failed"]_vars

\* C3: in every state of a record, output_filename is set exactly when the status is
\* completed.
C3_OutputFilenameIffCompleted ==
    \A id \in ConvIds :
        rec[id] # NoRecord
        => ((rec[id].output_filename # None) <=> (rec[id].status = "completed"))

C3_Witness ==
    /\ cur \in ConvIds
    /\ pc = "done"
    /\ Record # NoRecord
    /\ Record.status = "completed"
    /\ Record.output_filename = ComputedOutputFilename

\* C4: an exception raised in convert_pdf after the record was created leaves the
\* record failed with str(e) as error_message and the progress entry terminal with
\* status error and a non-empty error string, and reaches the caller (stated for an
\* attempt no retry request has touched).
C4_FailureRecorded ==
    (/\ pc = "done"
     /\ outcome = "raised"
     /\ Record # NoRecord
     /\ retry_response = NoResponse)
    => /\ Record.status = "failed"
       /\ Record.error_message = exc
       /\ Entry.status = "error"
       /\ Entry.error # <<>>

\* C5: on the traditional path, when the formatting call raises or returns empty or
\* blank text, the markdown of the result is the baseline extraction, and the
\* conversion returns its result with a completed progress entry.
C5_DegradeKeepsBaseline ==
    FormattingDegraded
    => /\ markdown_content = baseline
       /\ result # NoResult => result.markdown = baseline
       /\ pc = "done" => /\ outcome = "returned"
                         /\ Entry.status = "completed"
                         /\ result.markdown = baseline

C5_Witness ==
    /\ pc = "done"
    /\ formatted = <<" ">>
    /\ baseline = <<"a">>
    /\ result.markdown = <<"a">>
    /\ Entry.status = "completed"

\* C6: on the VLM path, when the VLM raises for some pages and answers at least one,
\* the final markdown is the answers of the processed pages in page order, joined by
\* the page separator, and the conversion returns a completed result.
C6_PartialVlmResult ==
    (/\ pc = "done"
     /\ Len(page_results) = total_pages
     /\ \E i \in 1..Len(page_results) : page_results[i] = Raised
     /\ Successes # <<>>)
    => /\ outcome = "returned"
       /\ result.markdown = join(PAGE_SEPARATOR, Successes)
       /\ result.processing_method = "vlm"
       /\ Entry.status = "completed"

C6_Witness ==
    /\ pc = "done"
    /\ page_results = << <<"a">>, Raised, <<"b">> >>
    /\ result.markdown = <<"a">> \o PAGE_SEPARATOR \o <<"b">>
    /\ Entry.status = "completed"

\* C7: when no page was processed by the VLM (every page raised or returned nothing,
\* or the VLM step itself failed), _process_with_vlm gives None, the traditional path
\* runs, and the result is the traditional one, never the empty VLM output.
C7_VlmFailureFallsBack ==
    (/\ pc \in {"vlm_returned", "extract", "enhance_check", "get_service", "enhance",
                "finalize", "result", "complete_record", "pipeline_complete", "done",
                "except", "except_progress", "raise"}
     /\ Successes = <<>>)
    => /\ vlm_markdown = None
       /\ pc \in {"finalize", "result", "complete_record", "pipeline_complete"}
            => baseline # None /\ markdown_content # None
       /\ (pc = "done" /\ outcome = "returned")
            => /\ baseline # None
               /\ result.processing_method = "traditional"
               /\ result.markdown = IF formatted = NotCalled \/ FormattingDegraded
                                    THEN baseline
                                    ELSE strip(formatted)

C7_Witness ==
    /\ pc = "done"
    /\ outcome = "returned"
    /\ page_results = << Raised, <<>> >>
    /\ baseline = <<"a">>
    /\ result.markdown = <<"a">>

\* C8: when the configured VLM provider is registered, enabled and advertises
\* VLM_DIRECT, _process_with_vlm goes on to the VLM start (the 20% entry) instead of
\* returning None to the traditional path.
VlmProviderCapable ==
    /\ config.vlm_provider_id \in DOMAIN services
    /\ services[config.vlm_provider_id].enabled
    /\ VLM_DIRECT \in get_capabilities(services[config.vlm_provider_id])

C8_VlmPathAttempted ==
    [][(pc = "vlm_guard" /\ pc' # pc)
         => /\ VlmProviderCapable => pc' = "vlm_start"
            /\ config.vlm_provider_id = NoneId => pc' = "vlm_returned"]_vars

\* a step of the retry endpoint for id (the worker does not move in it)
EndpointRetryStep(id) ==
    /\ UNCHANGED workerVars
    /\ retry_response' # NoResponse
    /\ retry_response'.via = "endpoint"
    /\ retry_response'.id = id
    /\ (rec' # rec \/ retry_response' # retry_response)

\* C9: a retry request for a failed record with retry_count < max_retries that the
\* endpoint handles successfully (HTTP 200) increments retry_count by exactly 1 and
\* leaves the record in status processing.
C9_RetryIncrementsAndProcesses ==
    [][\A id \in ConvIds :
          (/\ EndpointRetryStep(id)
           /\ rec[id] # NoRecord
           /\ rec[id].status = "failed"
           /\ rec[id].retry_count < global_retry_attempts
           /\ retry_response'.code = 200)
          => /\ rec'[id].retry_count = rec[id].retry_count + 1
             /\ rec'[id].status = "processing"]_vars

PipelineRetryStep(id) ==
    /\ UNCHANGED workerVars
    /\ retry_response' # NoResponse
    /\ retry_response'.via = "pipeline"
    /\ retry_response'.id = id
    /\ (rec' # rec \/ retry_response' # retry_response)

\* C11: a retry request for a record that is queued, processing, retrying or
\* completed is rejected (HTTP 400 from the endpoint, an exception from
\* ConversionPipeline.retry_conversion) and leaves the record as it was.
C11_RetryOfUnfailedRejected ==
    [][\A id \in ConvIds :
          (rec[id] # NoRecord /\ rec[id].status # "failed")
          => /\ EndpointRetryStep(id)
                => /\ retry_response'.code = 400
                   /\ rec'[id] = rec[id]
             /\ PipelineRetryStep(id)
                => /\ retry_response'.raised # NoneId
                   /\ retry_response'.returned = NoneId
                   /\ rec'[id] = rec[id]]_vars

C11_Witness ==
    /\ cur \in ConvIds
    /\ Record # NoRecord
    /\ Record.status = "completed"
    /\ Record.retry_count = 0
    /\ retry_response # NoResponse
    /\ retry_response.via = "endpoint"
    /\ retry_response.code = 400

\* C12: once a retry request was accepted (the record is retrying), the conversion is
\* attempted again and the record eventually reaches completed or failed.
C12_RetriedAttemptFinishes ==
    \A id \in ConvIds :
        (rec[id] # NoRecord /\ rec[id].status = "retrying")
        ~> (rec[id] # NoRecord /\ rec[id].status \in {"completed", "failed"})

\* a step of the worker thread (no retry request is answered in it)
WorkerStep == retry_response' = retry_response

StatusOrder ==
    {<<"queued", "processing">>, <<"processing", "completed">>,
     <<"processing", "failed">>}

\* C13 as stated: in an attempt the status follows queued, processing, then completed
\* or failed, and no state is skipped.
C13_NoStateSkipped ==
    [][\A id \in ConvIds :
          (WorkerStep /\ rec[id] # NoRecord /\ rec'[id].status # rec[id].status)
          => <<rec[id].status, rec'[id].status>> \in StatusOrder]_vars

\* C13 amended: in an attempt the record is created as queued and its status only
\* moves forward: queued to processing, processing to completed or failed, and, when
\* the write of processing raised, queued straight to completed or failed; processing
\* is entered from queued only and a completed or failed status is not left.
C13_StatusMovesForward ==
    [][\A id \in ConvIds :
          WorkerStep
          => /\ (rec[id] = NoRecord /\ rec'[id] # NoRecord)
                => rec'[id].status = "queued"
             /\ rec[id] # NoRecord => rec'[id] # NoRecord
             /\ (rec[id] # NoRecord /\ rec'[id].status # rec[id].status)
                => <<rec[id].status, rec'[id].status>>
                      \in StatusOrder \cup {<<"queued", "completed">>,
                                            <<"queued", "failed">>}]_vars

\* an attempt whose write of processing raised: the record is still queued when the
\* result is published and the write of completed is due
C13_Witness ==
    /\ pc = "complete_record"
    /\ Record # NoRecord
    /\ Record.status = "queued"
    /\ result # NoResult
    /\ Entry.status = "completed"

\* C14: when the document cannot be opened, convert_pdf raises and the conversion's
\* record ends failed with an error_message.
C14_OpenFailureRecorded ==
    (pc = "done" /\ outcome = "raised" /\ total_pages = 0)
    => /\ Record # NoRecord
       /\ Record.status = "failed"
       /\ Record.error_message # None

\* the positions of convert_pdf at a write of the record, and where it goes on
WritePcs == {"create", "processing", "complete_record", "except"}
AfterWrite(p) ==
    CASE p = "create" -> "init"
      [] p = "processing" -> "vlm_guard"
      [] p = "complete_record" -> "pipeline_complete"
      [] p = "except" -> "except_progress"

\* C15: a write of the record that raises does not abort the attempt: after each of
\* the four writes convert_pdf goes on at the same place with the same progress
\* entry, result and pending exception whether the write succeeded or not, and an
\* attempt that returns has published 100% and its result.
C15_WriteFailureTolerated ==
    [][/\ (pc \in WritePcs /\ pc' # pc)
          => /\ pc' = AfterWrite(pc)
             /\ UNCHANGED <<conversion_progress, result, outcome, exc,
                            markdown_content, output_filename>>
       /\ (pc # "done" /\ pc' = "done" /\ outcome' = "returned")
          => /\ result' # NoResult
             /\ conversion_progress'[cur].progress = 100
             /\ conversion_progress'[cur].status = "completed"
             /\ conversion_progress'[cur].result = result']_vars

\* every write raised: no row at all, and the attempt returned its result at 100%
C15_Witness ==
    /\ pc = "done"
    /\ outcome = "returned"
    /\ Record = NoRecord
    /\ result # NoResult
    /\ Entry.progress = 100
    /\ Entry.status = "completed"

\* C16: status completed (in the record and in the progress entry) is set only after
\* the markdown content is non-empty and the output filename has been computed.
C16_CompletedHasMarkdown ==
    /\ (cur \in ConvIds /\ Record # NoRecord /\ Record.status = "completed")
       => markdown_content # None /\ markdown_content # <<>> /\ output_filename # None
    /\ (cur \in ConvIds /\ Entry # NoEntry /\ Entry.status = "completed")
       => markdown_content # None /\ markdown_content # <<>> /\ output_filename # None

\* C17: no step removes the uploaded input file of a conversion that is still in
\* flight (its progress entry is in status processing).
C17_InputFileKept ==
    [][\A id \in ConvIds :
          (/\ conversion_progress[id] # NoEntry
           /\ conversion_progress[id].status = "processing"
           /\ conversion_progress'[id] # NoEntry
           /\ conversion_progress'[id].status = "processing"
           /\ id \in temp_files)
          => id \in temp_files']_vars

\* C18: every progress entry that reaches a terminal status is eventually removed
\* from the progress tracker.
C18_TerminalEntryRemoved ==
    \A id \in ConvIds :
        (conversion_progress[id] # NoEntry /\ Terminal(conversion_progress[id]))
        ~> (conversion_progress[id] = NoEntry)

\* C19: a progress entry has a result field only in status completed and an error
\* field only in status error, and a terminal entry is never turned back into a
\* processing entry.
C19_EntryFields ==
    [][\A id \in ConvIds :
          /\ conversion_progress'[id] # NoEntry
             => /\ "result" \in DOMAIN conversion_progress'[id]
                   => conversion_progress'[id].status = "completed"
                /\ "error" \in DOMAIN conversion_progress'[id]
                   => conversion_progress'[id].status = "error"
          /\ (/\ conversion_progress[id] # NoEntry
              /\ Terminal(conversion_progress[id])
              /\ conversion_progress'[id] # NoEntry)
             => Terminal(conversion_progress'[id])]_vars

\* an error entry written again by convert_pdf_with_progress after a cleanup thread
\* had removed the one convert_pdf published
C19_Witness ==
    /\ pc = "done"
    /\ outcome = "raised"
    /\ Entry # NoEntry
    /\ Entry.status = "error"
    /\ "error" \in DOMAIN Entry
    /\ 0 \in cleanup_timers[cur]

\* members of AIServiceCapability
Capabilities == {HTR, FORMATTING, LAYOUT_ANALYSIS, VLM_DIRECT, DOCUMENT_INTELLIGENCE}

\* the capabilities a configuration declares, read off its flags
Declares(provider_config, capability) ==
    \/ capability = HTR /\ provider_config.is_htr_capable
    \/ capability = FORMATTING /\ provider_config.is_formatting_capable
    \/ capability = LAYOUT_ANALYSIS /\ provider_config.is_layout_capable
    \/ capability = VLM_DIRECT /\ provider_config.is_vlm_capable
    \/ capability = DOCUMENT_INTELLIGENCE /\ provider_config.is_document_intelligence_capable

\* a register_service call that has just returned TRUE
Registered ==
    /\ registry_response # NoResponse
    /\ registry_response.op = "register"
    /\ registry_response.returned

\* C20 as stated: after register_service returned true, get_services_by_capability
\* returns the provider for every capability its configuration declares.
C20_RegisteredIsListed ==
    Registered
    => \A capability \in Capabilities :
          Declares(registry_response.config, capability)
          => registry_response.id \in get_services_by_capability(services, capability)

\* C20 amended: after register_service returned true, get_services_by_capability
\* returns the provider for every capability its configuration declares if the
\* configuration is enabled, and for no capability if it is not; get_service
\* returns the provider either way.
C20_RegisteredEnabledIsListed ==
    Registered
    => /\ get_service(services, registry_response.id) = registry_response.config
       /\ \A capability \in Capabilities :
             registry_response.id \in get_services_by_capability(services, capability)
             <=> (/\ Declares(registry_response.config, capability)
                  /\ registry_response.config.enabled)

C20_Witness ==
    /\ Registered
    /\ registry_response.id = "ollama_llava"
    /\ registry_response.config.enabled
    /\ registry_response.config.is_htr_capable
    /\ registry_response.config.is_vlm_capable
    /\ registry_response.config.is_document_intelligence_capable
    /\ "ollama_llava" \in get_services_by_capability(services, VLM_DIRECT)
    /\ "ollama_llava" \in get_services_by_capability(services, DOCUMENT_INTELLIGENCE)

\* a register_service call that has just returned FALSE
RegistrationFailed ==
    /\ registry_response # NoResponse
    /\ registry_response.op = "register"
    /\ ~registry_response.returned

\* C21: after register_service returned false because validation failed, the
\* provider id is in no capability list (and register_service did not raise: it
\* answered).
C21_FailedRegistrationUnlisted ==
    RegistrationFailed
    => \A capability \in Capabilities :
          registry_response.id \notin get_services_by_capability(services, capability)

\* a registry call has raised instead of returning
RegistryCallRaised ==
    /\ registry_response # NoResponse
    /\ "raised" \in DOMAIN registry_response

\* what a caller that looks at the registry now sees for every id: a service and a
\* stored configuration that one registration wrote
EntriesFromOneRegistration ==
    /\ DOMAIN services = DOMAIN factory_config
    /\ \A id \in DOMAIN services : factory_config[id] = services[id]

\* C22: under every interleaving of registrations, re-registrations and
\* unregistrations, a caller never sees a service and a stored configuration that
\* come from different registrations, and no call fails because of such a state.
C22_ReplacementAtomic ==
    /\ EntriesFromOneRegistration
    /\ ~RegistryCallRaised

\* a reload that has just been answered
Reloaded ==
    /\ registry_response # NoResponse
    /\ registry_response.op = "reload"

\* C23: after a reload from configuration C the registry holds exactly the providers
\* of C that pass validation, with the configuration C gives them; a provider that
\* C no longer has, or whose configuration in C is invalid, is returned by no lookup.
C23_ReloadHoldsExactlyConfigured ==
    Reloaded
    => LET C == registry_response.ai_provider_configs
       IN  /\ DOMAIN services = {id \in DOMAIN C : registers(C[id])}
           /\ \A id \in DOMAIN services : get_service(services, id) = C[id]

\* C24: the backoff delay applied before a retry is min(2^r, 60), where r is the
\* retry_count of the record before this retry increments it (so it doubles with
\* each retry and never exceeds 60): an accepted retry of a failed record has
\* slept that long, whether requested at the endpoint or at the pipeline.
C24_BackoffIsCappedPowerOfTwo ==
    [][\A id \in ConvIds :
          (/\ rec[id] # NoRecord
           /\ rec[id].status = "failed"
           /\ rec[id].retry_count < global_retry_attempts)
          => /\ (EndpointRetryStep(id) /\ retry_response'.code = 200)
                => retry_response'.slept = backoff_delay(rec[id].retry_count)
             /\ PipelineRetryStep(id)
                => retry_response'.slept = backoff_delay(rec[id].retry_count)]_vars

\* the endpoint has just accepted a retry of id (HTTP 200)
RetryAccepted(id) ==
    /\ retry_response' # NoResponse
    /\ retry_response'.via = "endpoint"
    /\ retry_response'.id = id
    /\ retry_response'.code = 200
    /\ (rec' # rec \/ retry_response' # retry_response)

\* a worker thread has just been started for id, as convert starts one
\* (Thread(target=...).start())
WorkerStarted(id) ==
    /\ pc # "start"
    /\ pc' = "start"
    /\ cur' = id

C26_RetryWithoutInputIsDistinct ==
    [][\A id \in ConvIds :
          (/\ EndpointRetryStep(id)
           /\ rec[id] # NoRecord
           /\ rec[id].status = "failed"
           /\ id \notin temp_files)
          => retry_response'.code # 200]_vars

\* neither a formatting provider nor a VLM provider is configured
NoProviderConfigured ==
    /\ config.formatting_provider_id = NoneId
    /\ config.vlm_provider_id = NoneId

\* C27: with no formatting provider and no VLM provider configured, the result of a
\* conversion has ai_enhanced false and its markdown is what the extractor
\* returned, character for character.
C27_UnconfiguredIsVerbatim ==
    (result # NoResult /\ NoProviderConfigured)
    => /\ ~result.ai_enhanced
       /\ result.markdown = baseline

C27_Witness ==
    /\ result # NoResult
    /\ NoProviderConfigured
    /\ baseline \in Texts
    /\ Len(baseline) > 0
    /\ baseline # strip(baseline)
    /\ result.markdown = baseline
    /\ ~result.ai_enhanced
    /\ Entry # NoEntry
    /\ Entry.status = "completed"

\* the annotation fields of a result dict
Annotations(r) ==
    [ai_enhanced |-> r.ai_enhanced, processing_method |-> r.processing_method,
     formatting_provider |-> r.formatting_provider]

\* the annotation fields of a conversion whose formatting by the configured
\* provider succeeded (no VLM output, formatting_provider_id set)
AnnotationsWhenFormatted ==
    [ai_enhanced |-> TRUE, processing_method |-> "traditional",
     formatting_provider |-> config.formatting_provider_id]

\* formatting is configured and was skipped, unavailable or failed
FormattingNotApplied ==
    /\ config.formatting_provider_id # NoneId
    /\ (formatted = NotCalled \/ FormattingDegraded)

\* C28: a conversion whose formatting was skipped, unavailable or failed still
\* reports completed, and its annotation fields (ai_enhanced, processing_method,
\* formatting_provider) differ from those of a conversion whose formatting
\* succeeded under the same configuration.
C28_DegradedIsAnnotated ==
    (result # NoResult /\ FormattingNotApplied)
    => /\ Entry # NoEntry => Entry.status = "completed"
       /\ Annotations(result) # AnnotationsWhenFormatted

\* a prompt has just been rendered from a template that exists
Rendered ==
    /\ prompt_response # NoResponse
    /\ prompt_response.op = "get_prompt"
    /\ prompt_response.name \in DOMAIN templates

\* C29: rendering a template with keyword arguments that lack one of its
\* replacement fields does not raise, and the text returned has every field the
\* arguments have a value for substituted; only the unresolved fields are left.
C29_ResolvableFieldsSubstituted ==
    Rendered
    => prompt_response.returned
          = substitute(templates[prompt_response.name], prompt_response.kwargs)

\* the names of the built-in templates
BuiltInNames == DOMAIN DEFAULT_PROMPT_TEMPLATES

\* delete_template(name) has just been called
DeleteStep(name) ==
    /\ prompt_response' # NoResponse
    /\ prompt_response'.op = "delete_template"
    /\ prompt_response'.name = name
    /\ (prompt_response' # prompt_response \/ templates' # templates)

\* C30: delete_template on a built-in name is rejected and leaves the template set
\* as it was; after any sequence of add, update and delete operations every
\* built-in template name is in the template set.
C30_BuiltInsStay ==
    /\ [](BuiltInNames \subseteq DOMAIN templates)
    /\ [][\A name \in BuiltInNames :
             DeleteStep(name)
             => /\ ~prompt_response'.returned
                /\ templates' = templates]_vars

C30_Witness ==
    /\ prompt_response # NoResponse
    /\ prompt_response.op = "delete_template"
    /\ prompt_response.name = "formatting_clean"
    /\ ~prompt_response.returned
    /\ "custom_notes" \in DOMAIN templates
    /\ templates["formatting_clean"] # DEFAULT_PROMPT_TEMPLATES["formatting_clean"]
    /\ BuiltInNames \subseteq DOMAIN templates

\* C31: ConversionPipeline.retry_conversion called for an existing failed record
\* whose retry_count is below the limit returns a result with a status field; the
\* only failure it may raise is a not-found error.
C31_PipelineRetryReturnsStatus ==
    [][\A id \in ConvIds :
          (/\ PipelineRetryStep(id)
           /\ rec[id] # NoRecord
           /\ rec[id].status = "failed"
           /\ rec[id].retry_count < max_retries)
          => /\ retry_response'.raised \in {NoneId, "ValueError: not found"}
             /\ retry_response'.raised = NoneId => retry_response'.returned # NoneId]_vars

\* an output filename has just been computed
FilenameComputed ==
    /\ helper_call # NoResponse
    /\ helper_call.fn = "output_filename"

\* the pattern from position i on with every date token replaced by date and every
\* name token by stem, in one pass; everything else is copied
RECURSIVE Substituted(_, _, _, _)
Substituted(pattern, i, date, stem) ==
    IF i > Len(pattern) THEN <<>>
    ELSE IF StartsWithAt(pattern, DateToken, i)
    THEN date \o Substituted(pattern, i + Len(DateToken), date, stem)
    ELSE IF StartsWithAt(pattern, NameToken, i)
    THEN stem \o Substituted(pattern, i + Len(NameToken), date, stem)
    ELSE <<pattern[i]>> \o Substituted(pattern, i + 1, date, stem)

\* stem and ext are the filename cut in front of its extension
IsStemAndExtension(filename, stem, ext) ==
    /\ stem \o ext = filename
    /\ ext # <<>> => /\ ext[1] = "."
                     /\ \A k \in 2..Len(ext) : ext[k] \notin {".", "/"}
                     /\ stem # <<>>

\* C32: the output filename is the configured pattern with the token YYYY-MM-DD
\* replaced by the current date and the token [OriginalFileName] replaced by the
\* input filename without its extension, every other part of the pattern unchanged;
\* YYYY-MM-DD-[OriginalFileName].md with report.pdf on 2024-03-05 gives
\* 2024-03-05-report.md.
C32_OutputFilenameSubstitutes ==
    FilenameComputed
    => LET stem == splitext(helper_call.filename)[1]
           ext == splitext(helper_call.filename)[2]
       IN  /\ IsStemAndExtension(helper_call.filename, stem, ext)
           /\ helper_result
                 = Substituted(helper_call.output_pattern, 1, helper_call.timestamp_str, stem)
           /\ (/\ helper_call.output_pattern = DateToken \o <<"-">> \o NameToken \o <<".", "m", "d">>
               /\ helper_call.filename = <<"r", "e", "p", "o", "r", "t", ".", "p", "d", "f">>
               /\ helper_call.timestamp_str = <<"2", "0", "2", "4", "-", "0", "3", "-", "0", "5">>)
              => helper_result = <<"2", "0", "2", "4", "-", "0", "3", "-", "0", "5", "-", "r", "e", "p", "o", "r", "t", ".", "m", "d">>

C32_Witness ==
    /\ FilenameComputed
    /\ helper_call.output_pattern = DateToken \o <<"-">> \o NameToken \o <<".", "m", "d">>
    /\ helper_call.filename = <<"r", "e", "p", "o", "r", "t", ".", "p", "d", "f">>
    /\ helper_call.timestamp_str = <<"2", "0", "2", "4", "-", "0", "3", "-", "0", "5">>
    /\ helper_result = <<"2", "0", "2", "4", "-", "0", "3", "-", "0", "5", "-", "r", "e", "p", "o", "r", "t", ".", "m", "d">>

\* the document type of a file has just been determined
DocumentTypeDetermined ==
    /\ helper_call # NoResponse
    /\ helper_call.fn = "_determine_document_type"

\* keyword occurs in filename, letter case ignored (the keywords are lower case)
OccursIgnoringCase(filename, keyword) ==
    \E i \in 1..Len(filename) :
        /\ i + Len(keyword) - 1 <= Len(filename)
        /\ \A k \in 1..Len(keyword) :
              \/ filename[i + k - 1] = keyword[k]
              \/ \E j \in DOMAIN Upper :
                    Upper[j] = filename[i + k - 1] /\ Lower[j] = keyword[k]

AnyOccurs(filename, keywords) ==
    \E keyword \in keywords : OccursIgnoringCase(filename, keyword)

\* C33: the document type is inferred from case-insensitive keyword substring
\* matches on the filename, academic before notes before forms, and is clean when no
\* keyword matches; the result is always one of academic, notes, forms, clean
\* (meeting_notes.pdf: notes, Research_Paper_Final.pdf: academic, scan001.pdf: clean).
C33_DocumentTypeByKeyword ==
    DocumentTypeDetermined
    => LET filename == helper_call.filename
           academic == AnyOccurs(filename, AcademicKeywords)
           notes == AnyOccurs(filename, NotesKeywords)
           forms == AnyOccurs(filename, FormsKeywords)
       IN  /\ helper_result \in {"academic", "notes", "forms", "clean"}
           /\ helper_result = "academic" <=> academic
           /\ helper_result = "notes" <=> (~academic /\ notes)
           /\ helper_result = "forms" <=> (~academic /\ ~notes /\ forms)
           /\ helper_result = "clean" <=> (~academic /\ ~notes /\ ~forms)
           /\ filename = <<"m", "e", "e", "t", "i", "n", "g", "_", "n", "o", "t", "e", "s", ".", "p", "d", "f">> => helper_result = "notes"
           /\ filename = <<"R", "e", "s", "e", "a", "r", "c", "h", "_", "P", "a", "p", "e", "r", "_", "F", "i", "n", "a", "l", ".", "p", "d", "f">> => helper_result = "academic"
           /\ filename = <<"s", "c", "a", "n", "0", "0", "1", ".", "p", "d", "f">> => helper_result = "clean"

C33_Witness ==
    /\ DocumentTypeDetermined
    /\ helper_call.filename = <<"T", "h", "e", "s", "i", "s", " ", "n", "o", "t", "e", "s", ".", "p", "d", "f">>
    /\ AnyOccurs(helper_call.filename, AcademicKeywords)
    /\ AnyOccurs(helper_call.filename, NotesKeywords)
    /\ helper_result = "academic"

\* C34: under any interleaving of concurrent retry requests for the same failed
\* record the check of retry_count against the ceiling and the increment act as
\* one step: a request is accepted only for a record that is still failed (at most
\* one per failed attempt), and retry_count never exceeds the ceiling.
C34_CheckAndIncrementAtomic ==
    [][\A id \in ConvIds :
          RetryAccepted(id)
          => /\ rec[id].status = "failed"
             /\ rec'[id].retry_count <= global_retry_attempts]_vars

\* C35: whenever a poll can read a progress entry with status completed, the record
\* of that conversion has status completed and its output_filename set: the
\* terminal entry is never published ahead of, or without, the record's completion.
C35_CompletedEntryHasCompletedRecord ==
    \A id \in ConvIds :
        (conversion_progress[id] # NoEntry /\ conversion_progress[id].status = "completed")
        => /\ rec[id] # NoRecord
           /\ rec[id].status = "completed"
           /\ rec[id].output_filename # None

\* convert has answered its caller with conversion_id id
EnqueueReturned(id) == cur = id

\* the worker has published a terminal progress entry (completed or error)
TerminalPublished == result # NoResult \/ pc \in {"raise", "done"}

\* C36: once convert has returned a conversion_id, a poll for that id finds a
\* progress entry (never 'not found') until the entry has been purged after
\* reaching a terminal status.
C36_PollFindsEntry ==
    \A id \in ConvIds :
        (EnqueueReturned(id) /\ conversion_progress[id] = NoEntry) => TerminalPublished

\* C37: the retry endpoint and ConversionPipeline.retry_conversion apply the same
\* retry ceiling: for a retry the endpoint accepts, the ceiling the pipeline reads
\* is the ceiling the endpoint checked, and the pipeline does not reject the retry
\* as exceeding the maximum number of retries.
C37_SameRetryCeiling ==
    [][\A id \in ConvIds :
          RetryAccepted(id)
          => /\ retry_response'.pipeline.ceiling = global_retry_attempts
             /\ retry_response'.pipeline.raised
                   # "ValueError: maximum retries exceeded"]_vars


\* C38: when _process_with_vlm has returned, every temporary page image it wrote has
\* been removed again, also the images of the pages whose VLM call raised: from the
\* return on, no /tmp/page_<id>_<n>.png of the conversion exists.
VlmReturned == pc \notin {"vlm_start", "vlm_open", "vlm_page"}

C39_PipelineUsesManagedTemplates == pipeline_templates = templates


\* C40: an accepted retry request clears the error_message of the failed attempt
\* from the record, so a record in status retrying or processing never carries the
\* error_message of an earlier attempt: its error_message is None.
C40_RetryClearsErrorMessage ==
    \A id \in DOMAIN rec :
        (rec[id] # NoRecord /\ rec[id].status \in {"retrying", "processing"})
            => rec[id].error_message = None

====
